---- MODULE Spec2Model ----
(***************************************************************************)
(* A model of fgo_sdk: the request-authentication layer (AuthHandler,      *)
(* FgoClient) and the battle-result payload builder (BattleService).       *)
(*                                                                         *)
(* Python strings are sequences of one-character strings, compared by code *)
(* point as Python compares them.  A Python value is a tagged record:      *)
(* [t |-> "none"], [t |-> "str", s |-> chars] or [t |-> "int", i |-> n].   *)
(* A dict is the sequence of its [k, v] items in insertion order, with     *)
(* distinct keys.  SHA-1, base64 and the RSA signature are symbolic: the   *)
(* digest of a text is the term H(text), the signature of a text under the *)
(* account's private key is the term S(text), so two results are equal     *)
(* exactly when their inputs are.                                          *)
(***************************************************************************)
EXTENDS Integers, Sequences, FiniteSets, TLC

VARIABLES
    \* ---- AuthHandler.get_auth_code applied to caller dicts ----
    par,            \* the dict handed to get_auth_code
    authOut,        \* what the call on par produced ([canon, code]) or NoCall
    par2,           \* a second dict related to par (reordered / None <-> "")
    authOut2,       \* what the call on par2 produced, or NoCall
    authRel,        \* how par2 was derived from par: "none", "again", "perm", "nullswap"
    \* ---- one FgoClient and its AuthHandler ----
    request_data,   \* FgoClient._request_data, the BasicFormData template
    uuidNext,       \* the number of the next uuid4() the generator returns
    calls,          \* the get_login_data / create_form_data calls made, in order
    lastAuth,       \* the latest call of get_auth_code: its path and its argument
    signCalls,      \* how often sign_data was invoked
    keyLoads,       \* how often the key file was opened and parsed
    sent,           \* the latest post: the dict urlencode() was given, and how it ended
    threads,        \* the threads calling into the client: where each is, its locals
    \* ---- BattleService.battle_setup, then battle_result ----
    setup_response, \* what /battle/setup answered: the battle's id, decks, or a failure
    setup_result,   \* the BattleSetupResult battle_setup returned
    battle,         \* the battle_result call made: its inputs, its payload, its outcome
    \* ---- the codecs: cat_game5, mouse_game5, get_asset_bundle ----
    codec,          \* the codec call made: its input, each stage's buffer, its outcome
    \* ---- ItemService and FollowerService ----
    service,        \* the service call made: its arguments, the answer, its result
    \* ---- FollowerService.get_follower_list ----
    last_refresh_time,  \* self._last_refresh_time
    clock,          \* what time.time() returns
    list_requests,  \* the /follower/list requests sent: refresh, when, by whom
    list_calls,     \* the get_follower_list calls that returned, one after another
    list_threads    \* the threads inside get_follower_list: where each is, its locals

authVars == <<par, authOut, par2, authOut2, authRel>>
clientVars == <<request_data, uuidNext, calls, lastAuth, signCalls, keyLoads, sent, threads>>
battleVars == <<setup_response, setup_result, battle>>
codecVars == <<codec>>
serviceVars == <<service>>
followerVars == <<last_refresh_time, clock, list_requests, list_calls, list_threads>>
vars == <<par, authOut, par2, authOut2, authRel,
          request_data, uuidNext, calls, lastAuth, signCalls, keyLoads, sent, threads,
          setup_response, setup_result, battle, codec, service,
          last_refresh_time, clock, list_requests, list_calls, list_threads>>

-----------------------------------------------------------------------------
(* Bounds of the exploration *)

\* most items of a dict handed to get_auth_code in the pure-function check
MaxPairs == 3

\* most get_login_data / create_form_data calls on the client
MaxCalls == 2

\* most enemy waves (enemy_deck_pages) of a setup result
MaxWaves == 3

\* most servants (my_deck_svt_count) of a setup result
MaxSvt == 4

\* random logs are explored for setup results of at most this many waves
MaxRandomWaves == 2

\* and of at most this many waves * card-bearing slots
MaxCells == 3

-----------------------------------------------------------------------------
(* Python strings *)

Digits == <<"0", "1", "2", "3", "4", "5", "6", "7", "8", "9">>

Upper == << "A", "B", "C", "D", "E", "F", "G", "H", "I", "J", "K", "L", "M",
            "N", "O", "P", "Q", "R", "S", "T", "U", "V", "W", "X", "Y", "Z" >>

Lower == << "a", "b", "c", "d", "e", "f", "g", "h", "i", "j", "k", "l", "m",
            "n", "o", "p", "q", "r", "s", "t", "u", "v", "w", "x", "y", "z" >>

\* the other ASCII characters the requests use, with their code points
Punct == << <<"&", 38>>, <<"(", 40>>, <<")", 41>>, <<",", 44>>, <<"-", 45>>,
            <<".", 46>>, <<":", 58>>, <<"=", 61>>, <<"?", 63>>, <<"[", 91>>,
            <<"]", 93>>, <<"_", 95>>, <<"{", 123>>, <<"}", 125>> >>

IndexOf(seq, c) == CHOOSE i \in 1..Len(seq) : seq[i] = c

Range(seq) == {seq[i] : i \in 1..Len(seq)}

\* the code point of every character, ASCII
OrdTable ==
    [c \in Range(Digits) \cup Range(Upper) \cup Range(Lower)
           \cup {Punct[i][1] : i \in 1..Len(Punct)} |->
        IF c \in Range(Digits) THEN 47 + IndexOf(Digits, c)
        ELSE IF c \in Range(Upper) THEN 64 + IndexOf(Upper, c)
        ELSE IF c \in Range(Lower) THEN 96 + IndexOf(Lower, c)
        ELSE Punct[CHOOSE i \in 1..Len(Punct) : Punct[i][1] = c][2]]

\* ord(c)
Ord(c) == OrdTable[c]

\* a < b for two str: code point by code point, a proper prefix first
RECURSIVE StrLess(_, _)
StrLess(a, b) ==
    IF b = <<>> THEN FALSE
    ELSE IF a = <<>> THEN TRUE
    ELSE IF Head(a) = Head(b) THEN StrLess(Tail(a), Tail(b))
    ELSE Ord(Head(a)) < Ord(Head(b))

\* str(n) for an int n >= 0
RECURSIVE NatStr(_)
NatStr(n) == IF n < 10 THEN <<Digits[n + 1]>>
             ELSE NatStr(n \div 10) \o <<Digits[(n % 10) + 1]>>

\* str(n) for an int
IntStr(n) == IF n < 0 THEN <<"-">> \o NatStr(-n) ELSE NatStr(n)

-----------------------------------------------------------------------------
(* Python values and dicts *)

None == [t |-> "none"]
PStr(s) == [t |-> "str", s |-> s]
PInt(n) == [t |-> "int", i |-> n]

\* f"{value}"
Format(value) ==
    CASE value.t = "str" -> value.s
      [] value.t = "int" -> IntStr(value.i)
      [] value.t = "none" -> <<"N", "o", "n", "e">>

Item(k, v) == [k |-> k, v |-> v]

\* list(d.keys()): insertion order
DictKeys(d) == [i \in 1..Len(d) |-> d[i].k]

\* key in d
DictHas(d, key) == \E i \in 1..Len(d) : d[i].k = key

\* d[key]
DictGet(d, key) == d[CHOOSE i \in 1..Len(d) : d[i].k = key].v

\* d[key] = value: an existing key keeps its place, a new key goes last
DictSet(d, key, value) ==
    IF DictHas(d, key)
    THEN [i \in 1..Len(d) |-> IF d[i].k = key THEN Item(key, value) ELSE d[i]]
    ELSE Append(d, Item(key, value))

\* d.update(e)
RECURSIVE DictUpdate(_, _)
DictUpdate(d, e) ==
    IF e = <<>> THEN d
    ELSE DictUpdate(DictSet(d, Head(e).k, Head(e).v), Tail(e))

-----------------------------------------------------------------------------
(* AuthHandler.get_auth_code *)

\* the account's secret_key
SecretKey == <<"s", "k">>

\* insert key into an ascending list of keys
RECURSIVE InsertSorted(_, _)
InsertSorted(key, keys) ==
    IF keys = <<>> THEN <<key>>
    ELSE IF StrLess(key, Head(keys)) THEN <<key>> \o keys
    ELSE <<Head(keys)>> \o InsertSorted(key, Tail(keys))

RECURSIVE SortKeys(_)
SortKeys(keys) ==
    IF keys = <<>> THEN <<>>
    ELSE InsertSorted(Head(keys), SortKeys(Tail(keys)))

\* a plausible slip: the keys are taken in insertion order
UnsortedKeys(d) == DictKeys(d)

\* sorted(par.keys())
SortedKeys(d) == SortKeys(DictKeys(d))

\* a plausible slip: every falsy value (0 too) is left out
PairTextFalsy(key, value) ==
    IF value.t = "none" \/ (value.t = "str" /\ value.s = <<>>)
       \/ (value.t = "int" /\ value.i = 0)
    THEN key \o <<"=">>
    ELSE key \o <<"=">> \o Format(value)

\* the text one key contributes
PairText(key, value) ==
    IF value.t = "none" THEN key \o <<"=">>
    ELSE IF value.t = "str" /\ value.s = <<>> THEN key \o <<"=">>
    ELSE key \o <<"=">> \o Format(value)

\* the loop over the sorted keys, temp being the text so far
RECURSIVE AuthLoop(_, _, _)
AuthLoop(keys, d, temp) ==
    IF keys = <<>> THEN temp
    ELSE AuthLoop(Tail(keys), d,
                  (IF temp # <<>> THEN temp \o <<"&">> ELSE temp)
                      \o PairText(Head(keys), DictGet(d, Head(keys))))

\* the value of temp when the loop ends
CanonicalString(d) == AuthLoop(SortedKeys(d), d, <<>>)

\* base64(sha1(text)), symbolic
Sha1B64(text) == <<"H", "(">> \o text \o <<")">>

get_auth_code(d) == Sha1B64(CanonicalString(d) \o <<":">> \o SecretKey)

-----------------------------------------------------------------------------
(* Python int operators on two's complement integers of any size *)

\* a & b for a, b >= 0
RECURSIVE AndNat(_, _)
AndNat(a, b) ==
    IF a = 0 \/ b = 0 THEN 0
    ELSE 2 * AndNat(a \div 2, b \div 2) + (IF a % 2 = 1 /\ b % 2 = 1 THEN 1 ELSE 0)

\* a ^ b for a, b >= 0
RECURSIVE XorNat(_, _)
XorNat(a, b) ==
    IF a = 0 THEN b
    ELSE IF b = 0 THEN a
    ELSE 2 * XorNat(a \div 2, b \div 2) + (IF a % 2 # b % 2 THEN 1 ELSE 0)

\* ~a
BitNot(a) == -a - 1

\* a & b
BitAnd(a, b) ==
    IF a >= 0 /\ b >= 0 THEN AndNat(a, b)
    ELSE IF a < 0 /\ b >= 0 THEN b - AndNat(BitNot(a), b)
    ELSE IF a >= 0 /\ b < 0 THEN a - AndNat(a, BitNot(b))
    ELSE BitNot(BitNot(a) + BitNot(b) - AndNat(BitNot(a), BitNot(b)))

\* a ^ b
BitXor(a, b) ==
    IF a >= 0 /\ b >= 0 THEN XorNat(a, b)
    ELSE IF a < 0 /\ b < 0 THEN XorNat(BitNot(a), BitNot(b))
    ELSE BitNot(XorNat(IF a < 0 THEN BitNot(a) ELSE a, IF b < 0 THEN BitNot(b) ELSE b))

\* a >> 2, an arithmetic shift: the floor of a / 4
ShiftRight2(a) == a \div 4

-----------------------------------------------------------------------------
(* BasicFormData *)

F_userId == <<"u", "s", "e", "r", "I", "d">>
F_authKey == <<"a", "u", "t", "h", "K", "e", "y">>
F_appVer == <<"a", "p", "p", "V", "e", "r">>
F_dateVer == <<"d", "a", "t", "e", "V", "e", "r">>
F_verCode == <<"v", "e", "r", "C", "o", "d", "e">>
F_dataVer == <<"d", "a", "t", "a", "V", "e", "r">>
F_lastAccessTime == <<"l", "a", "s", "t", "A", "c", "c", "e", "s", "s", "T", "i", "m", "e">>
F_idempotencyKey == <<"i", "d", "e", "m", "p", "o", "t", "e", "n", "c", "y", "K", "e", "y">>
F_authCode == <<"a", "u", "t", "h", "C", "o", "d", "e">>
F_idempotencyKeySignature ==
    <<"i", "d", "e", "m", "p", "o", "t", "e", "n", "c", "y", "K", "e", "y",
      "S", "i", "g", "n", "a", "t", "u", "r", "e">>
F_deviceInfo == <<"d", "e", "v", "i", "c", "e", "I", "n", "f", "o">>
F_userState == <<"u", "s", "e", "r", "S", "t", "a", "t", "e">>
F_assetbundleFolder ==
    <<"a", "s", "s", "e", "t", "b", "u", "n", "d", "l", "e", "F", "o", "l", "d", "e", "r">>
F_appCheckErrorMessage ==
    <<"a", "p", "p", "C", "h", "e", "c", "k", "E", "r", "r", "o", "r",
      "M", "e", "s", "s", "a", "g", "e">>
F_isTerminalLogin ==
    <<"i", "s", "T", "e", "r", "m", "i", "n", "a", "l", "L", "o", "g", "i", "n">>

\* a field some services pass in extra_fields
F_questId == <<"q", "u", "e", "s", "t", "I", "d">>

\* the configuration the client is constructed with
Account == [id |-> 7, auth_key |-> <<"a", "k">>]
Device == [device_info |-> <<"d", "e", "v">>, app_check_error_message |-> PStr(<<>>)]
GameData == [app_version |-> <<"2", ".", "0">>, date_ver |-> 3, ver_code |-> <<"v", "c">>,
             data_ver |-> 4, asset_bundle_folder |-> <<"a", "b", "f">>,
             asset_bundle_folder_crc |-> 13]

\* a BasicFormData: every field in declaration order, None when unset
BasicFormData(userId, authKey, appVer, dateVer, verCode, dataVer) ==
    << Item(F_userId, PInt(userId)), Item(F_authKey, PStr(authKey)),
       Item(F_appVer, PStr(appVer)), Item(F_dateVer, PInt(dateVer)),
       Item(F_verCode, PStr(verCode)), Item(F_dataVer, PInt(dataVer)),
       Item(F_lastAccessTime, None), Item(F_idempotencyKey, None),
       Item(F_authCode, None), Item(F_idempotencyKeySignature, None),
       Item(F_deviceInfo, None), Item(F_userState, None),
       Item(F_assetbundleFolder, None), Item(F_appCheckErrorMessage, None),
       Item(F_isTerminalLogin, None) >>

\* model.model_dump(exclude_none=True)
ModelDump(m) == SelectSeq(m, LAMBDA it : it.v # None)

\* d without key
DictDel(d, key) == SelectSeq(d, LAMBDA it : it.k # key)

-----------------------------------------------------------------------------
(* AuthHandler.sign_data *)

\* base64(private_key.sign(text, PKCS1v15, SHA256)), symbolic
RsaSignB64(text) == <<"S", "(">> \o text \o <<")">>

\* a generator that returns one value again and again
Uuid4Same(n) == <<"u", "u", "i", "d", "-">> \o NatStr(1)

\* str(uuid.uuid4()) for the n-th value of the generator
Uuid4(n) == <<"u", "u", "i", "d", "-">> \o NatStr(n)

-----------------------------------------------------------------------------
(* FgoClient *)

NoAuth == [path |-> "none", par |-> <<>>]
NoPost == [posted |-> FALSE, data |-> <<>>, from |-> 0, outcome |-> "none"]

\* the threads that call into the one client
Threads == {"T1", "T2"}

\* a thread that has not called yet
IdleThread ==
    [ pc |-> "idle", op |-> "none", extra |-> <<>>, t |-> 0, gen |-> <<>>,
      form_data |-> <<>>, signature |-> <<>>, env |-> <<>>, overlapped |-> FALSE ]

\* FgoClient.__init__
ClientStart ==
    /\ request_data = BasicFormData(Account.id, Account.auth_key, GameData.app_version,
                                    GameData.date_ver, GameData.ver_code, GameData.data_ver)
    /\ uuidNext = 1
    /\ calls = <<>>
    /\ lastAuth = NoAuth
    /\ signCalls = 0
    /\ keyLoads = 0
    /\ sent = NoPost
    /\ threads = [i \in Threads |-> IdleThread]

\* a plausible slip: no copy is taken, the template is the object written to
TemplateAliased(template, form) == form

\* self._request_data after _get_basic_form_data wrote to the model_copy()
TemplateAfterCopy(template, form) == template

\* _get_basic_form_data(with_auth=False): the copy with its two fields set
BasicForm(template, t, key) ==
    DictSet(DictSet(template, F_lastAccessTime, PInt(t)), F_idempotencyKey, PStr(key))

\* a plausible slip: the shift rounds towards zero
UserStateTruncated(form) ==
    BitXor(-(DictGet(form, F_lastAccessTime).i \div 4),
           BitAnd(DictGet(form, F_userId).i, GameData.asset_bundle_folder_crc))

\* user_state of get_login_data
UserState(form) ==
    BitXor(ShiftRight2(-(DictGet(form, F_lastAccessTime).i)),
           BitAnd(DictGet(form, F_userId).i, GameData.asset_bundle_folder_crc))

\* a plausible slip: only the idempotency key is signed
SignInputKeyOnly(form) == Format(DictGet(form, F_idempotencyKey))

\* sign_input of get_login_data
SignInput(form) == Format(DictGet(form, F_userId)) \o Format(DictGet(form, F_idempotencyKey))

\* the login-only fields get_login_data assigns
LoginFields(form, signature) ==
    DictSet(DictSet(DictSet(DictSet(DictSet(DictSet(form,
        F_userState, PStr(IntStr(UserState(form)))),
        F_assetbundleFolder, PStr(GameData.asset_bundle_folder)),
        F_isTerminalLogin, PStr(<<"1">>)),
        F_idempotencyKeySignature, PStr(signature)),
        F_deviceInfo, PStr(Device.device_info)),
        F_appCheckErrorMessage, Device.app_check_error_message)

CanCall == Len(calls) < MaxCalls

\* get_login_data(); t: what get_timestamp() returns; readable: whether the
\* key file can be opened and parsed
get_login_data(t, readable) ==
    LET form == BasicForm(request_data, t, Uuid4(uuidNext))
        signature == RsaSignB64(SignInput(form))
        filled == LoginFields(form, signature)
        authPar == ModelDump(filled)
        result == DictSet(filled, F_authCode, PStr(get_auth_code(authPar)))
    IN  /\ CanCall
        /\ request_data' = TemplateAfterCopy(request_data, form)
        /\ uuidNext' = uuidNext + 1
        /\ signCalls' = signCalls + 1
        /\ IF readable
           THEN /\ keyLoads' = keyLoads + 1
                /\ lastAuth' = [path |-> "get_login_data", par |-> authPar]
                /\ calls' = Append(calls, [op |-> "login", ok |-> TRUE, env |-> result,
                                           gen |-> Uuid4(uuidNext), extra |-> <<>>])
           ELSE \* open() or load_pem_private_key raises, and so does the call
                /\ keyLoads' = keyLoads
                /\ lastAuth' = lastAuth
                /\ calls' = Append(calls, [op |-> "login", ok |-> FALSE, env |-> <<>>,
                                           gen |-> Uuid4(uuidNext), extra |-> <<>>])
        /\ UNCHANGED <<sent, threads>>

\* the extra_fields callers pass: None, a service's field, and fields that
\* name a field of the form itself
ExtraFields ==
    { <<>>,
      << Item(F_questId, PStr(<<"1">>)) >>,
      << Item(F_authCode, PStr(<<"s", "t", "a", "l", "e">>)) >>,
      << Item(F_idempotencyKey, PStr(<<"f", "i", "x", "e", "d">>)) >> }

\* create_form_data(extra_fields); t: what get_timestamp() returns
create_form_data(t, extra_fields) ==
    LET form == BasicForm(request_data, t, Uuid4(uuidNext))
        data == ModelDump(form)
        authPar == IF extra_fields # <<>> THEN DictUpdate(data, extra_fields) ELSE data
        result == DictSet(authPar, F_authCode, PStr(get_auth_code(authPar)))
    IN  /\ CanCall
        /\ request_data' = TemplateAfterCopy(request_data, form)
        /\ uuidNext' = uuidNext + 1
        /\ lastAuth' = [path |-> "create_form_data", par |-> authPar]
        /\ calls' = Append(calls, [op |-> "form", ok |-> TRUE, env |-> result,
                                   gen |-> Uuid4(uuidNext), extra |-> extra_fields])
        /\ UNCHANGED <<signCalls, keyLoads, sent, threads>>

\* _get_basic_form_data(with_auth=True): the form is signed and handed back
get_basic_form_data_with_auth(t) ==
    LET form == BasicForm(request_data, t, Uuid4(uuidNext))
        authPar == ModelDump(form)
        result == DictSet(form, F_authCode, PStr(get_auth_code(authPar)))
    IN  /\ CanCall
        /\ request_data' = TemplateAfterCopy(request_data, form)
        /\ uuidNext' = uuidNext + 1
        /\ lastAuth' = [path |-> "_get_basic_form_data", par |-> authPar]
        /\ calls' = Append(calls, [op |-> "basic", ok |-> TRUE, env |-> result,
                                   gen |-> Uuid4(uuidNext), extra |-> <<>>])
        /\ UNCHANGED <<signCalls, keyLoads, sent, threads>>

\* the dicts callers build themselves and hand to post
CallerDicts ==
    { << Item(F_questId, PStr(<<"1">>)) >>,
      << Item(F_userId, PInt(Account.id)), Item(F_authCode, None) >> }

\* whether post computes the code itself
PostSigns(data) == ~DictHas(data, F_authCode) \/ DictGet(data, F_authCode) = None

\* post(endpoint, data, operate_name); from: the call whose envelope data is
\* (0 for a caller's own dict); resCode: the resCode of the response
post(data, from, resCode) ==
    LET signed == IF PostSigns(data)
                  THEN DictSet(data, F_authCode, PStr(get_auth_code(data)))
                  ELSE data
    IN  /\ lastAuth' = IF PostSigns(data) THEN [path |-> "post", par |-> data] ELSE lastAuth
        /\ sent' = [posted |-> TRUE, data |-> signed, from |-> from,
                    outcome |-> IF resCode = "00" THEN "returned" ELSE "raised"]
        /\ UNCHANGED <<request_data, uuidNext, calls, signCalls, keyLoads, threads>>

\* what a caller posts for the envelope of call i: LoginService.login dumps the
\* model, the services hand on the dict create_form_data returned
Envelope(i) == IF calls[i].op = "form" THEN calls[i].env ELSE ModelDump(calls[i].env)

\* the values get_timestamp() returns: the wall clock, read at each call
Timestamps == {1700000000, 1700000003}

LoginCall == \E t \in Timestamps, readable \in BOOLEAN : get_login_data(t, readable)

FormCall == \E t \in Timestamps, extra_fields \in ExtraFields : create_form_data(t, extra_fields)

BasicCall == \E t \in Timestamps : get_basic_form_data_with_auth(t)

PostEnvelope ==
    \E i \in 1..Len(calls), resCode \in {"00", "99"} :
        /\ calls[i].ok
        /\ post(Envelope(i), i, resCode)

PostCallerDict == \E data \in CallerDicts, resCode \in {"00", "99"} : post(data, 0, resCode)

-----------------------------------------------------------------------------
(* get_login_data and create_form_data called from several threads: each    *)
(* statement that reads or writes the client or a form is a step of its own *)

\* whether a thread other than i is inside a call
OthersInside(i) ==
    \E j \in Threads \ {i} : threads[j].pc \notin {"idle", "done", "raised"}

\* thread i moves on: its locals change as given, the rest stays
Step(i, changed) ==
    threads' = [threads EXCEPT ![i] =
                   [changed EXCEPT !.overlapped = @ \/ OthersInside(i)]]

\* a thread calls get_login_data() or create_form_data(extra_fields)
ThreadCall(i) ==
    /\ threads[i].pc = "idle"
    /\ \E op \in {"login", "form"}, extra_fields \in ExtraFields :
         /\ op = "login" => extra_fields = <<>>
         /\ Step(i, [threads[i] EXCEPT !.pc = "copy", !.op = op, !.extra = extra_fields])
    /\ UNCHANGED <<request_data, uuidNext, calls, lastAuth, signCalls, keyLoads, sent>>

\* form_data = self._request_data.model_copy()
ThreadCopy(i) ==
    /\ threads[i].pc = "copy"
    /\ Step(i, [threads[i] EXCEPT !.pc = "time", !.form_data = request_data])
    /\ UNCHANGED <<request_data, uuidNext, calls, lastAuth, signCalls, keyLoads, sent>>

\* form_data.lastAccessTime = get_timestamp()
ThreadTime(i) ==
    /\ threads[i].pc = "time"
    /\ \E t \in Timestamps :
         LET form == DictSet(threads[i].form_data, F_lastAccessTime, PInt(t)) IN
         /\ Step(i, [threads[i] EXCEPT !.pc = "uuid", !.t = t, !.form_data = form])
         /\ request_data' = TemplateAfterCopy(request_data, form)
    /\ UNCHANGED <<uuidNext, calls, lastAuth, signCalls, keyLoads, sent>>

\* form_data.idempotencyKey = str(uuid.uuid4())
ThreadUuid(i) ==
    /\ threads[i].pc = "uuid"
    /\ LET form == DictSet(threads[i].form_data, F_idempotencyKey, PStr(Uuid4(uuidNext))) IN
       /\ Step(i, [threads[i] EXCEPT
                      !.pc = IF threads[i].op = "login" THEN "sign" ELSE "dump",
                      !.gen = Uuid4(uuidNext), !.form_data = form])
       /\ request_data' = TemplateAfterCopy(request_data, form)
    /\ uuidNext' = uuidNext + 1
    /\ UNCHANGED <<calls, lastAuth, signCalls, keyLoads, sent>>

\* get_login_data: signature = self._auth_handler.sign_data(sign_input), which
\* raises when the key file cannot be read
ThreadSign(i) ==
    /\ threads[i].pc = "sign"
    /\ signCalls' = signCalls + 1
    /\ \E readable \in BOOLEAN :
         IF readable
         THEN /\ keyLoads' = keyLoads + 1
              /\ Step(i, [threads[i] EXCEPT
                             !.pc = "fields",
                             !.signature = RsaSignB64(SignInput(threads[i].form_data))])
         ELSE /\ keyLoads' = keyLoads
              /\ Step(i, [threads[i] EXCEPT !.pc = "raised"])
    /\ UNCHANGED <<request_data, uuidNext, calls, lastAuth, sent>>

\* get_login_data: the six login fields are assigned
ThreadFields(i) ==
    /\ threads[i].pc = "fields"
    /\ LET form == LoginFields(threads[i].form_data, threads[i].signature) IN
       /\ Step(i, [threads[i] EXCEPT !.pc = "auth", !.form_data = form])
       /\ request_data' = TemplateAfterCopy(request_data, form)
    /\ UNCHANGED <<uuidNext, calls, lastAuth, signCalls, keyLoads, sent>>

\* create_form_data: data = form_data.model_dump(exclude_none=True), updated
\* with extra_fields
ThreadDump(i) ==
    /\ threads[i].pc = "dump"
    /\ LET data == ModelDump(threads[i].form_data) IN
       Step(i, [threads[i] EXCEPT
                   !.pc = "auth",
                   !.form_data = IF threads[i].extra # <<>>
                                 THEN DictUpdate(data, threads[i].extra) ELSE data])
    /\ UNCHANGED <<request_data, uuidNext, calls, lastAuth, signCalls, keyLoads, sent>>

\* the auth code is computed and assigned, and the envelope returned
ThreadAuth(i) ==
    /\ threads[i].pc = "auth"
    /\ LET authPar == ModelDump(threads[i].form_data)
           env == DictSet(threads[i].form_data, F_authCode, PStr(get_auth_code(authPar)))
       IN  /\ Step(i, [threads[i] EXCEPT !.pc = "done", !.form_data = env, !.env = env])
           /\ lastAuth' = [path |-> IF threads[i].op = "login" THEN "get_login_data"
                                    ELSE "create_form_data",
                           par |-> authPar]
           /\ request_data' = IF threads[i].op = "login"
                              THEN TemplateAfterCopy(request_data, env)
                              ELSE request_data
    /\ UNCHANGED <<uuidNext, calls, signCalls, keyLoads, sent>>

ThreadStep ==
    \E i \in Threads :
        \/ ThreadCall(i)
        \/ ThreadCopy(i)
        \/ ThreadTime(i)
        \/ ThreadUuid(i)
        \/ ThreadSign(i)
        \/ ThreadFields(i)
        \/ ThreadDump(i)
        \/ ThreadAuth(i)

-----------------------------------------------------------------------------
(* battle_crypto.calc_battle_status *)

(* A 32-bit unsigned value is the pair <<hi, lo>> of its 16-bit halves, a   *)
(* signed 64-bit value the sequence of its 8 bytes, low byte first, in      *)
(* two's complement.                                                        *)
U32(n) == <<n \div 65536, n % 65536>>

\* the 8 bytes of an integer n with -2^31 < n < 2^31
Int64Bytes(n) ==
    [i \in 1..8 |->
        IF i <= 4 THEN (n \div (256 ^ (i - 1))) % 256
        ELSE IF n < 0 THEN 255 ELSE 0]

\* the 8 bytes of a non-negative 32-bit value
U32Bytes(x) == << x[2] % 256, x[2] \div 256, x[1] % 256, x[1] \div 256, 0, 0, 0, 0 >>

\* a + b on signed 64-bit values
RECURSIVE AddBytes(_, _, _, _)
AddBytes(a, b, i, carry) ==
    IF i > 8 THEN <<>>
    ELSE LET sum == a[i] + b[i] + carry
         IN  <<sum % 256>> \o AddBytes(a, b, i + 1, sum \div 256)

Add64(a, b) == AddBytes(a, b, 1, 0)

\* a plausible slip: the user id is packed as it is
StatusFieldsPlain(user_id, battle_id) ==
    << U32Bytes(user_id),
       Int64Bytes(0 - 4231125),
       Int64Bytes(0 \div 2),
       Add64(U32Bytes(battle_id), Int64Bytes(0 - 2147483647)),
       Int64Bytes(0 - 2469110) >>

\* the list battle_status: user_id + 1, num - 0x408FD5, num // 2,
\* battle_id - 0x7FFFFFFF, num - 0x25ACF6, with num = 0
StatusFields(user_id, battle_id) ==
    << Add64(U32Bytes(user_id), Int64Bytes(1)),
       Int64Bytes(0 - 4231125),
       Int64Bytes(0 \div 2),
       Add64(U32Bytes(battle_id), Int64Bytes(0 - 2147483647)),
       Int64Bytes(0 - 2469110) >>

\* struct.pack("<5q", *battle_status)
Pack5q(fields) == fields[1] \o fields[2] \o fields[3] \o fields[4] \o fields[5]

\* a ^ b on 32-bit values
Xor32(a, b) == << XorNat(a[1], b[1]), XorNat(a[2], b[2]) >>

\* a >> 1 on a 32-bit value
ShiftRight1(a) == << a[1] \div 2, (a[2] \div 2) + 32768 * (a[1] % 2) >>

\* the CRC-32 polynomial of zlib, reflected: 0xEDB88320
CrcPoly == <<60856, 33568>>

AllOnes == <<65535, 65535>>

\* k steps of the register: shift right, xor the polynomial in on a 1 bit
\* (the test on next has it evaluated before the following step)
RECURSIVE CrcShift(_, _)
CrcShift(crc, k) ==
    IF k = 0 THEN crc
    ELSE LET next == IF crc[2] % 2 = 1 THEN Xor32(ShiftRight1(crc), CrcPoly)
                     ELSE ShiftRight1(crc)
         IN  IF next[1] >= 0 THEN CrcShift(next, k - 1) ELSE next

RECURSIVE CrcBytes(_, _, _)
CrcBytes(crc, data, i) ==
    IF i > Len(data) THEN crc
    ELSE LET next == CrcShift(Xor32(crc, <<0, data[i]>>), 8)
         IN  IF next[1] >= 0 THEN CrcBytes(next, data, i + 1) ELSE next

\* zlib.crc32(data)
Crc32(data) == Xor32(CrcBytes(AllOnes, data, 1), AllOnes)

\* crc & 0xFFFFFFFF
Mask32(crc) == << crc[1] % 65536, crc[2] % 65536 >>

\* calc_battle_status(user_id, battle_id)
calc_battle_status(user_id, battle_id) ==
    Mask32(Crc32(Pack5q(StatusFields(user_id, battle_id))))

-----------------------------------------------------------------------------
(* BattleService *)

BATTLE_LOGS_LIST ==
    << <<"1", "B">>, <<"1", "C">>, <<"1", "D">>,
       <<"2", "B">>, <<"2", "C">>, <<"2", "D">>,
       <<"3", "B">>, <<"3", "C">>, <<"3", "D">> >>

Min(a, b) == IF a <= b THEN a ELSE b
Max(a, b) == IF a >= b THEN a ELSE b

\* seq[:n] for n >= 0
Prefix(seq, n) == SubSeq(seq, 1, Min(n, Len(seq)))

\* a plausible slip: the slice ends one servant too far
AvailableCardsOneMore(my_deck_svt_count) ==
    Prefix(BATTLE_LOGS_LIST, (Min(my_deck_svt_count, 3) + 1) * 3)

\* available_cards of _generate_battle_logs
AvailableCards(my_deck_svt_count) ==
    Prefix(BATTLE_LOGS_LIST, Min(my_deck_svt_count, 3) * 3)

\* the strings n more random.choice(cards) can append to logs
RECURSIVE Choices(_, _)
Choices(n, cards) ==
    IF n = 0 THEN {<<>>}
    ELSE {l \o cards[i] : l \in Choices(n - 1, cards), i \in 1..Len(cards)}

\* every value _generate_battle_logs can return: three cards per wave
GeneratedLogs(enemy_deck_pages, my_deck_svt_count) ==
    Choices(3 * Max(enemy_deck_pages, 0), AvailableCards(my_deck_svt_count))

\* random.choice is reached with no card to choose from and raises IndexError
GenerationRaises(enemy_deck_pages, my_deck_svt_count) ==
    enemy_deck_pages > 0 /\ AvailableCards(my_deck_svt_count) = <<>>

\* "".join(f"u{uid}" for uid in enemy_unique_ids)
RECURSIVE DeadTargets(_)
DeadTargets(ids) ==
    IF ids = <<>> THEN <<>>
    ELSE <<"u">> \o IntStr(Head(ids)) \o DeadTargets(Tail(ids))

\* the action JSON string
ActionJson(logs, dt) ==
    <<"{", "\"", "l", "o", "g", "s", "\"", ":", "\"">> \o logs
    \o <<"\"", ",", "\"", "d", "t", "\"", ":", "\"">> \o dt
    \o <<"\"", ",", "\"", "h", "d", "\"", ":", "\"", "\"", ",",
         "\"", "d", "a", "t", "a", "\"", ":", "\"", "\"", "}">>

\* a plausible slip: one entry too many
UsedTurnListExtra(enemy_deck_pages) ==
    [i \in 1..(Max(enemy_deck_pages, 0) + 1) |->
        IF i = Max(enemy_deck_pages, 0) + 1 THEN 1 ELSE 0]

\* [0] * (enemy_deck_pages - 1) + [1] if enemy_deck_pages > 0 else [1]
UsedTurnList(enemy_deck_pages) ==
    IF enemy_deck_pages > 0
    THEN [i \in 1..(enemy_deck_pages - 1) |-> 0] \o <<1>>
    ELSE <<1>>

\* the battle ids a setup result carries: the one /battle/setup answered, the default
BattleIds == {0, 9}

\* calc_battle_status(user_id, battle_id) of the account for each battle id,
\* computed once
BattleStatusTable ==
    { <<battle_id, calc_battle_status(U32(Account.id), U32(battle_id))>> :
        battle_id \in BattleIds }

\* battle_status of _create_battle_result
BattleStatusOf(battle_id) ==
    (CHOOSE entry \in BattleStatusTable : entry[1] = battle_id)[2]

\* whether custom_logs is truthy: `if custom_logs:`
Truthy(custom_logs) == custom_logs # None /\ custom_logs # PStr(<<>>)

\* the payload of _create_battle_result before it is packed
Payload(setup, logs) ==
    [ battleId |-> setup.battle_id,
      battleResult |-> 1,
      winResult |-> 1,
      action |-> ActionJson(logs, DeadTargets(setup.enemy_unique_ids)),
      elapsedTurn |-> 1,
      recordType |-> 1,
      battleStatus |-> BattleStatusOf(setup.battle_id),
      usedTurnList |-> UsedTurnList(setup.enemy_deck_pages) ]

NoBattle == [called |-> FALSE]

\* a plausible slip: a handler for ValueError only
ExceptValueError(error) == error = "ValueError"

\* "except Exception" of battle_result: whether it catches an exception of
\* the given class; IndexError and the exceptions of post derive from Exception
ExceptException(error) == error \in {"IndexError", "ValueError", "Exception"}

\* str(e) of the exceptions met
ErrorMessage(error) ==
    CASE error = "IndexError" -> "Cannot choose from an empty sequence"
      [] error = "Exception" -> "Battle Result failed"
      [] OTHER -> ""

\* the battle_result call that ends with the request sent; resCode: the
\* resCode of the server's response
BattleSent(custom_logs, generated, logs, resCode) ==
    [ called |-> TRUE,
      custom_logs |-> custom_logs,
      generated |-> generated,
      built |-> TRUE,
      logs |-> logs,
      payload |-> Payload(setup_result, logs),
      request_sent |-> TRUE,
      raised |-> (resCode # "00" /\ ~ExceptException("Exception")),
      error_message |-> IF resCode = "00" THEN "" ELSE ErrorMessage("Exception"),
      success |-> (resCode = "00") ]

\* the battle_result call whose payload could not be built: the exception is
\* caught and reported
BattleFailed(custom_logs) ==
    [ called |-> TRUE,
      custom_logs |-> custom_logs,
      generated |-> TRUE,
      built |-> FALSE,
      logs |-> <<>>,
      payload |-> <<>>,
      request_sent |-> FALSE,
      raised |-> ~ExceptException("IndexError"),
      error_message |-> ErrorMessage("IndexError"),
      success |-> FALSE ]

\* an enemy of a page that carries no "uniqueId" key
Missing == -1

\* enemy.get("uniqueId", 0)
UniqueIdOf(enemy) == IF enemy = Missing THEN 0 ELSE enemy

\* a plausible slip: the ids of the first page are collected
FirstPageIds(enemy_deck) ==
    IF enemy_deck = <<>> THEN <<>>
    ELSE [i \in 1..Len(enemy_deck[1]) |-> UniqueIdOf(enemy_deck[1][i])]

\* enemy_unique_ids of battle_setup: the ids of enemy_deck[-1], in page order
LastPageIds(enemy_deck) ==
    IF enemy_deck = <<>> THEN <<>>
    ELSE LET last_page == enemy_deck[Len(enemy_deck)]
         IN  [i \in 1..Len(last_page) |-> UniqueIdOf(last_page[i])]

\* the BattleSetupResult of a failed setup: the dataclass defaults
SetupFailure ==
    [ success |-> FALSE, battle_id |-> 0, enemy_deck_pages |-> 0,
      enemy_unique_ids |-> <<>>, my_deck_svt_count |-> 0 ]

\* battle_setup: the response parsed into a BattleSetupResult; a request or
\* response check that raises ends in the failure result
battle_setup(response) ==
    IF ~response.ok THEN SetupFailure
    ELSE [ success |-> TRUE,
           battle_id |-> response.id,
           enemy_deck_pages |-> Len(response.enemyDeck),
           enemy_unique_ids |-> LastPageIds(response.enemyDeck),
           my_deck_svt_count |-> response.svts ]

\* the pages of the enemy decks explored: the last page and the pages before it
PagePairs ==
    { << <<201>>, <<101, 102>> >>,
      << <<101, 102>>, <<201>> >>,
      << <<Missing, 301>>, <<>> >> }

\* the enemy decks /battle/setup answers with: no page, or up to MaxWaves pages
EnemyDecks ==
    {<<>>} \cup
    { [i \in 1..w |-> IF i = w THEN pair[1] ELSE pair[2]] :
        w \in 1..MaxWaves, pair \in PagePairs }

NoResponse == [received |-> FALSE, ok |-> FALSE, id |-> 0, enemyDeck |-> <<>>, svts |-> 0]

\* the answers of /battle/setup: a battle with its decks, or a failure
SetupResponses ==
    { [received |-> TRUE, ok |-> TRUE, id |-> 9, enemyDeck |-> deck, svts |-> s] :
        deck \in EnemyDecks, s \in 0..MaxSvt }
    \cup { [received |-> TRUE, ok |-> FALSE, id |-> 0, enemyDeck |-> <<>>, svts |-> 0] }

\* the custom_logs callers pass: None, the empty string, a log, any other text
CustomLogs ==
    { None, PStr(<<>>), PStr(<<"1", "C", "1", "D", "1", "B">>), PStr(<<"x">>) }

\* no setup made yet, no result submitted
BattleStart ==
    /\ setup_response = NoResponse
    /\ setup_result = SetupFailure
    /\ battle = NoBattle

BattleIdle == BattleStart

\* battle_setup(...): the request is answered and the answer parsed
BattleSetup ==
    /\ ~setup_response.received
    /\ \E response \in SetupResponses :
         /\ setup_response' = response
         /\ setup_result' = battle_setup(response)
    /\ UNCHANGED battle

\* random logs are explored for these setup results
Explored(setup) ==
    /\ setup.enemy_deck_pages <= MaxRandomWaves
    /\ Max(setup.enemy_deck_pages, 0) * Min(setup.my_deck_svt_count, 3) <= MaxCells

\* battle_result(setup_result, user_id, custom_logs) with logs that are used as given
BattleResultCustom ==
    /\ setup_response.received
    /\ ~battle.called
    /\ \E custom_logs \in CustomLogs, resCode \in {"00", "99"} :
         /\ Truthy(custom_logs)
         /\ battle' = BattleSent(custom_logs, FALSE, custom_logs.s, resCode)
    /\ UNCHANGED <<setup_response, setup_result>>

\* battle_result with logs from _generate_battle_logs
BattleResultRandom ==
    /\ setup_response.received
    /\ ~battle.called
    /\ Explored(setup_result)
    /\ \E custom_logs \in CustomLogs, resCode \in {"00", "99"} :
         /\ ~Truthy(custom_logs)
         /\ \E logs \in GeneratedLogs(setup_result.enemy_deck_pages,
                                      setup_result.my_deck_svt_count) :
              battle' = BattleSent(custom_logs, TRUE, logs, resCode)
    /\ UNCHANGED <<setup_response, setup_result>>

\* battle_result when _generate_battle_logs raises: no card to choose from
BattleResultRaises ==
    /\ setup_response.received
    /\ ~battle.called
    /\ \E custom_logs \in CustomLogs :
         /\ ~Truthy(custom_logs)
         /\ GenerationRaises(setup_result.enemy_deck_pages,
                             setup_result.my_deck_svt_count)
         /\ battle' = BattleFailed(custom_logs)
    /\ UNCHANGED <<setup_response, setup_result>>

-----------------------------------------------------------------------------
(* Byte strings *)

(* A byte string is a sequence of pieces.  A piece is one byte of value n,  *)
(* or a run of n bytes whose values the model does not follow: a serialized *)
(* record, the header, deflate stream and CRC of a gzip member, a           *)
(* ciphertext, or what is left of such a run after a slice cut it.  A       *)
(* ciphertext is the term of its key, IV and padded plaintext.              *)
Byte(v) == [k |-> "byte", n |-> v]

Bytes(values) == [i \in 1..Len(values) |-> Byte(values[i])]

\* n bytes of value v
Repeat(v, n) == [i \in 1..n |-> Byte(v)]

Run(kind, length, tag, of) ==
    [k |-> kind, n |-> length, tag |-> tag, of |-> of]


PieceLen(piece) == IF piece.k = "byte" THEN 1 ELSE piece.n

\* len(b)
RECURSIVE ByteLen(_)
ByteLen(b) == IF b = <<>> THEN 0 ELSE PieceLen(Head(b)) + ByteLen(Tail(b))

\* the ciphertext of the padded plaintext ppt under a key and an IV
Cipher(key, iv, ppt) ==
    [k |-> "cipher", n |-> ByteLen(ppt), key |-> key, iv |-> iv, of |-> ppt]

\* b[-1] for a buffer that ends in a byte whose value the model follows
LastByte(b) == b[Len(b)].n

EndsInByte(b) == b # <<>> /\ b[Len(b)].k = "byte"

\* b[:-p] for p >= 1
RECURSIVE DropLast(_, _)
DropLast(b, p) ==
    IF b = <<>> \/ p = 0 THEN b
    ELSE LET last == b[Len(b)]
             front == SubSeq(b, 1, Len(b) - 1)
         IN  IF PieceLen(last) <= p THEN DropLast(front, p - PieceLen(last))
             ELSE Append(front, Run("head", last.n - p, "", <<last>>))

\* b[:m]
RECURSIVE TakeFirst(_, _)
TakeFirst(b, m) ==
    IF b = <<>> \/ m = 0 THEN <<>>
    ELSE IF PieceLen(Head(b)) <= m
         THEN <<Head(b)>> \o TakeFirst(Tail(b), m - PieceLen(Head(b)))
         ELSE <<Run("head", m, "", <<Head(b)>>)>>

\* b[m:]
RECURSIVE DropFirst(_, _)
DropFirst(b, m) ==
    IF b = <<>> \/ m = 0 THEN b
    ELSE IF PieceLen(Head(b)) <= m
         THEN DropFirst(Tail(b), m - PieceLen(Head(b)))
         ELSE <<Run("tail", Head(b).n - m, "", <<Head(b)>>)>> \o Tail(b)

\* struct.pack("<I", n) for 0 <= n < 2^31
LE4(n) ==
    Bytes(<< n % 256, (n \div 256) % 256, (n \div 65536) % 256, (n \div 16777216) % 256 >>)

-----------------------------------------------------------------------------
(* msgpack, gzip, base64 and the Rijndael cipher, as the codecs use them *)

\* an outcome of a stage: a value, or the exception it raised
Ok(value) == [ok |-> TRUE, value |-> value, error |-> ""]
Raised(error) == [ok |-> FALSE, value |-> <<>>, error |-> error]

\* msgpack.packb(R): the serialized record, R.size bytes
Packb(R) == <<Run("msgpack", R.size, R.name, <<>>)>>

\* msgpack.unpackb(b): the record when b is exactly one serialized record
Unpackb(b) ==
    IF b = <<>> THEN Raised("ValueError")
    ELSE IF Head(b).k # "msgpack" THEN Raised("FormatError")
    ELSE IF Len(b) > 1 THEN Raised("ExtraData")
    ELSE Ok(b)

\* gzip.compress(data): the header, deflate stream and CRC32 (zlen bytes, as
\* the data happens to compress), then the length of the data modulo 2^32
GzipCompress(data, zlen) ==
    <<Run("deflate", zlen, "", data)>> \o LE4(ByteLen(data))

\* whether every piece of b is a zero byte
AllZero(b) == \A i \in 1..Len(b) : b[i] = Byte(0)

\* gzip.decompress(b): nothing for no input; the data of one member, zero
\* bytes after it ignored
GzipDecompress(b) ==
    IF b = <<>> THEN Ok(<<>>)
    ELSE IF Head(b).k = "head" /\ Head(b).of[1].k = "deflate" THEN Raised("EOFError")
    ELSE IF Head(b).k # "deflate" THEN Raised("BadGzipFile")
    ELSE IF ByteLen(Tail(b)) < 4 THEN Raised("EOFError")
    ELSE IF TakeFirst(Tail(b), 4) # LE4(ByteLen(Head(b).of)) THEN Raised("BadGzipFile")
    ELSE IF ~AllZero(DropFirst(Tail(b), 4)) THEN Raised("BadGzipFile")
    ELSE Ok(Head(b).of)

\* a base64 text: the bytes it encodes, or a text with incorrect padding
B64Encode(b) == [valid |-> TRUE, bytes |-> b]
BadBase64 == [valid |-> FALSE, bytes |-> <<>>]

\* base64.b64decode(text)
B64Decode(text) == IF text.valid THEN Ok(text.bytes) ELSE Raised("binascii.Error")

BATTLE_KEY ==
    << 111, 126, 96, 73, 112, 116, 105, 126, 117, 71, 76, 69, 98, 124, 52, 52,
       119, 101, 81, 53, 99, 77, 108, 80, 110, 93, 71, 113, 75, 64, 53, 78 >>

BATTLE_IV ==
    Bytes(<< 123, 124, 121, 124, 97, 123, 80, 123, 79, 81, 121, 90, 94, 107, 121, 122,
             64, 90, 113, 108, 98, 59, 99, 62, 126, 66, 75, 113, 91, 125, 59, 111 >>)

BLOCK_SIZE == 32

\* b"W0Juh4cFJSYPkebJB9WpswNF51oa6Gm7"
ASSET_BUNDLE_KEY ==
    << 87, 48, 74, 117, 104, 52, 99, 70, 74, 83, 89, 80, 107, 101, 98, 74,
       66, 57, 87, 112, 115, 119, 78, 70, 53, 49, 111, 97, 54, 71, 109, 55 >>

\* Pkcs7Padding(block_size).encode(source)
Pkcs7Encode(block_size, source) ==
    LET amount_to_pad == block_size - (ByteLen(source) % block_size)
    IN  source \o Repeat(amount_to_pad, amount_to_pad)

\* Pkcs7Padding.decode(source): source[:-source[-1]], nothing validated
Pkcs7Decode(source) ==
    IF source = <<>> THEN Raised("IndexError")
    ELSE IF LastByte(source) = 0 THEN Ok(<<>>)
    ELSE Ok(DropLast(source, LastByte(source)))

\* RijndaelCbc(key, iv, Pkcs7Padding(pad_size), block_size).encrypt(source)
CbcEncrypt(key, iv, pad_size, block_size, source) ==
    LET ppt == Pkcs7Encode(pad_size, source)
    IN  IF ByteLen(ppt) % block_size # 0 THEN Raised("ValueError")
        ELSE Ok(<<Cipher(key, iv, ppt)>>)

\* the plaintext blocks of a ciphertext under a key and IV: the plaintext it
\* was encrypted from under the same key and IV, and otherwise bytes that
\* have nothing to do with it (noise: the bytes those happen to be)
CbcBlocks(key, iv, cipher, noise) ==
    IF cipher = <<>> THEN <<>>
    ELSE IF Len(cipher) = 1 /\ cipher[1].k = "cipher"
            /\ cipher[1].key = key /\ cipher[1].iv = iv
         THEN cipher[1].of
         ELSE Repeat(noise[1], ByteLen(cipher) - 1) \o <<Byte(noise[2])>>

\* RijndaelCbc(key, iv, padding, block_size).decrypt(cipher): [ppt, the
\* outcome]; the padding is decoded whatever its block size
CbcDecrypt(key, iv, block_size, cipher, noise) ==
    IF ByteLen(cipher) % block_size # 0
    THEN [ppt |-> <<>>, out |-> Raised("AssertionError")]
    ELSE LET ppt == CbcBlocks(key, iv, cipher, noise)
         IN  [ppt |-> ppt, out |-> Pkcs7Decode(ppt)]

-----------------------------------------------------------------------------
(* battle_crypto.cat_game5, battle_crypto.mouse_game5, crypto.get_asset_bundle *)

\* cat_game5(data): encrypt under the battle key and IV, base64-encode
cat_game5(data) ==
    LET encrypted == CbcEncrypt(BATTLE_KEY, BATTLE_IV, BLOCK_SIZE, BLOCK_SIZE, data)
    IN  IF encrypted.ok THEN Ok(B64Encode(encrypted.value)) ELSE encrypted

\* the padding mouse_game5 removes by hand from what the cipher returned
ManualUnpad(decrypted) ==
    IF Len(decrypted) > 0 /\ 0 < LastByte(decrypted) /\ LastByte(decrypted) <= BLOCK_SIZE
    THEN DropLast(decrypted, LastByte(decrypted))
    ELSE decrypted

\* the call of a decode function that ended at a stage with an exception
Failed(stage, error, ppt, to_gzip) ==
    [ok |-> FALSE, value |-> <<>>, stage |-> stage, error |-> error,
     ppt |-> ppt, to_gzip |-> to_gzip]

\* mouse_game5(encrypted_b64): the bytes returned or the exception raised,
\* with the decrypted blocks (ppt) and the buffer handed to gzip.decompress
mouse_game5(encrypted_b64, noise) ==
    LET data == B64Decode(encrypted_b64) IN
    IF ~data.ok THEN Failed("base64", data.error, <<>>, <<>>)
    ELSE
    LET dec == CbcDecrypt(BATTLE_KEY, BATTLE_IV, BLOCK_SIZE, data.value, noise) IN
    IF ~dec.out.ok THEN Failed("decrypt", dec.out.error, dec.ppt, <<>>)
    ELSE
    LET decrypted == ManualUnpad(dec.out.value)
        plain == GzipDecompress(decrypted)
    IN  IF ~plain.ok THEN Failed("gzip", plain.error, dec.ppt, decrypted)
        ELSE [ok |-> TRUE, value |-> plain.value, stage |-> "done", error |-> "",
              ppt |-> dec.ppt, to_gzip |-> decrypted]

\* a plausible slip: the IV is taken to be one AES block, 16 bytes
AssetIvLenShort == BLOCK_SIZE \div 2

\* data[:32] is the IV, data[32:] the ciphertext
AssetIvLen == 32

\* get_asset_bundle(assetbundle): the record returned or the exception raised
get_asset_bundle(assetbundle, noise) ==
    LET data == B64Decode(assetbundle) IN
    IF ~data.ok THEN Failed("base64", data.error, <<>>, <<>>)
    ELSE
    LET iv == TakeFirst(data.value, AssetIvLen)
        array == DropFirst(data.value, AssetIvLen)
        dec == CbcDecrypt(ASSET_BUNDLE_KEY, iv, 32, array, noise)
    IN
    IF ~dec.out.ok THEN Failed("decrypt", dec.out.error, dec.ppt, <<>>)
    ELSE
    LET gzip_data == GzipDecompress(dec.out.value) IN
    IF ~gzip_data.ok THEN Failed("gzip", gzip_data.error, dec.ppt, dec.out.value)
    ELSE
    LET data_unpacked == Unpackb(gzip_data.value) IN
    IF ~data_unpacked.ok THEN Failed("msgpack", data_unpacked.error, dec.ppt, dec.out.value)
    ELSE [ok |-> TRUE, value |-> data_unpacked.value, stage |-> "done", error |-> "",
          ppt |-> dec.ppt, to_gzip |-> dec.out.value,
          key |-> ASSET_BUNDLE_KEY, iv |-> iv, cipher |-> array]

-----------------------------------------------------------------------------
(* The codec calls explored *)

NoCodec == [op |-> "none"]

CodecStart == codec = NoCodec
CodecIdle == CodecStart

\* the serialized lengths of the records sealed: small ones, and the lengths
\* around which the top byte of the gzip length field becomes 1, 32 and 33
RecordSizes == { 1, 200, 16777215, 16777216, 536870917, 553648128 }

\* a gzip member of n bytes of data has a header, a deflate stream and a CRC
\* of at least this many bytes
MinZLen(size) == 16 + (size \div 1000)

\* the records sealed: each with its serialized length and with the length of
\* its header, deflate stream and CRC, over every residue of the cipher block
Records ==
    { [name |-> "R", size |-> size, zlen |-> MinZLen(size) + r] :
        size \in RecordSizes, r \in 0..(BLOCK_SIZE - 1) }

\* what a decrypt under a key or IV other than the ciphertext's produces:
\* every byte but the last, and the last byte
Noises == { <<7, 0>>, <<7, 3>>, <<7, 200>> }

\* seal a record as _create_battle_result does, then unseal it
SealThenUnseal ==
    /\ codec = NoCodec
    /\ \E R \in Records, noise \in Noises :
         LET packed == Packb(R)
             compressed == GzipCompress(packed, R.zlen)
             sealed == cat_game5(compressed)
         IN  codec' = [ op |-> "roundtrip", record |-> R,
                        result |-> mouse_game5(sealed.value, noise) ]

\* a small record and its gzip member
SmallRecord == [name |-> "R", size |-> 200, zlen |-> 24]
SmallGzip == GzipCompress(Packb(SmallRecord), SmallRecord.zlen)

\* plaintext blocks a server can have encrypted: whole blocks of bytes ending
\* in each kind of final byte, a gzip member padded, not padded, and cut
Plaintexts ==
    { Repeat(f, BLOCK_SIZE - 1) \o <<Byte(b)>> :
        f \in {0, 7, 40}, b \in {0, 1, 2, 32, 33, 255} }
    \cup { Repeat(BLOCK_SIZE, BLOCK_SIZE),
           Repeat(9, BLOCK_SIZE) \o Repeat(7, BLOCK_SIZE - 1) \o <<Byte(40)>>,
           Pkcs7Encode(BLOCK_SIZE, SmallGzip),
           SmallGzip \o Repeat(0, 4),
           SmallGzip \o Bytes(<<0, 0, 0, 40>>),
           Pkcs7Encode(BLOCK_SIZE, DropLast(SmallGzip, 2)),
           Pkcs7Encode(BLOCK_SIZE, Bytes(<<1, 2, 3>>)) }

\* the texts handed to mouse_game5
SealedTexts ==
    { B64Encode(<<Cipher(BATTLE_KEY, BATTLE_IV, ppt)>>) : ppt \in Plaintexts }
    \cup { BadBase64,
           B64Encode(<<>>),
           B64Encode(Repeat(65, 10)),
           B64Encode(Repeat(65, BLOCK_SIZE + 1)) }

\* mouse_game5(text) on a text from the server
Unseal ==
    /\ codec = NoCodec
    /\ \E text \in SealedTexts, noise \in Noises :
         codec' = [ op |-> "mouse_game5", text |-> text,
                    result |-> mouse_game5(text, noise) ]

\* the IVs that prefix an asset bundle
AssetIvs == { Repeat(1, 32), Bytes([i \in 1..32 |-> i]) }

\* the plaintexts of asset bundles: a record serialized, compressed and padded,
\* a gzip member of something that is no record, something that is no gzip
AssetPlaintexts ==
    { Pkcs7Encode(BLOCK_SIZE, GzipCompress(Packb(R), R.zlen)) :
        R \in { [name |-> "A", size |-> 200, zlen |-> z] : z \in 20..30 } }
    \cup { Pkcs7Encode(BLOCK_SIZE, GzipCompress(Bytes(<<1, 2, 3>>), 23)),
           Pkcs7Encode(BLOCK_SIZE, GzipCompress(Packb(SmallRecord) \o Bytes(<<192>>), 24)),
           Pkcs7Encode(BLOCK_SIZE, Bytes(<<1, 2, 3>>)),
           Repeat(BLOCK_SIZE, BLOCK_SIZE),
           Repeat(0, BLOCK_SIZE) }

\* the texts handed to get_asset_bundle
AssetTexts ==
    { B64Encode(iv \o <<Cipher(ASSET_BUNDLE_KEY, iv, ppt)>>) :
        iv \in AssetIvs, ppt \in AssetPlaintexts }
    \cup { B64Encode(iv \o <<Cipher(BATTLE_KEY, BATTLE_IV, ppt)>>) :
             iv \in AssetIvs, ppt \in {Pkcs7Encode(BLOCK_SIZE, SmallGzip)} }
    \cup { BadBase64,
           B64Encode(<<>>),
           B64Encode(Repeat(1, 10)),
           B64Encode(Repeat(1, 32)),
           B64Encode(Repeat(1, 32) \o Repeat(65, 10)) }

\* get_asset_bundle(text) on a text from the server
AssetBundle ==
    /\ codec = NoCodec
    /\ \E text \in AssetTexts, noise \in Noises :
         codec' = [ op |-> "get_asset_bundle", text |-> text,
                    result |-> get_asset_bundle(text, noise) ]

\* the user ids and battle ids calc_battle_status is applied to
StatusUserIds ==
    { U32(0), U32(1), U32(7), U32(255), U32(256), U32(12345), U32(65535),
      <<1, 0>>, <<32767, 65535>>, <<65535, 65535>> }

StatusBattleIds ==
    { U32(0), U32(1), U32(9), U32(255), U32(65535), <<1, 0>>, <<1, 2354>>,
      <<32767, 65535>>, <<32768, 0>>, <<65535, 65535>> }

\* calc_battle_status(user_id, battle_id) on explored ids
StatusCall ==
    /\ codec = NoCodec
    /\ \E user_id \in StatusUserIds, battle_id \in StatusBattleIds :
         codec' = [ op |-> "calc_battle_status",
                    user_id |-> user_id, battle_id |-> battle_id,
                    packed |-> Pack5q(StatusFields(user_id, battle_id)),
                    result |-> calc_battle_status(user_id, battle_id) ]

-----------------------------------------------------------------------------
(* ItemService *)

\* the fields of the dataclass RecoveryResult, and the defaults of those that
\* have one
RecoveryResultFields == {"success", "current_ap", "apple_type", "error_message"}
RecoveryResultDefaults == [current_ap |-> 0, apple_type |-> 0, error_message |-> None]

\* RecoveryResult(**kwargs): the generated __init__ raises TypeError for a
\* keyword that is no field, and for a missing field without a default
RecoveryResult(kwargs) ==
    IF ~(DOMAIN kwargs \subseteq RecoveryResultFields) THEN Raised("TypeError")
    ELSE IF ~((RecoveryResultFields \ DOMAIN RecoveryResultDefaults) \subseteq DOMAIN kwargs)
    THEN Raised("TypeError")
    ELSE Ok([f \in RecoveryResultFields |->
                IF f \in DOMAIN kwargs THEN kwargs[f] ELSE RecoveryResultDefaults[f]])

\* a dict entry, or the default .get() falls back to
GetOr(value, default) == IF value = Missing THEN default ELSE value

\* self.client.post("/item/recover", data, "AP Recovery"): the response, or
\* the exception of the session or of _check_response
PostRecover(answer) ==
    IF ~answer.delivered THEN Raised("ConnectionError")
    ELSE IF answer.resCode # "00" THEN Raised("Exception")
    ELSE Ok(answer)

\* the parse of recover_ap: userGame[0] of cache.updated, {} when there is no
\* userGame
UserGameOf(answer) ==
    IF ~answer.has_userGame THEN Ok([actPoint |-> Missing, actRecoverAt |-> Missing])
    ELSE IF answer.userGame = <<>> THEN Raised("IndexError")
    ELSE Ok(answer.userGame[1])

\* ItemService.recover_ap(apple_type, num), the server answering answer
recover_ap(apple_type, num, answer) ==
    LET response == PostRecover(answer)
        user_game == IF response.ok THEN UserGameOf(answer) ELSE response
        built == IF user_game.ok
                 THEN RecoveryResult([success |-> TRUE,
                                      current_ap |-> GetOr(user_game.value.actPoint, 0),
                                      act_recover_at |-> GetOr(user_game.value.actRecoverAt, 0),
                                      apple_type |-> apple_type])
                 ELSE user_game
    IN  IF built.ok THEN built.value
        ELSE RecoveryResult([success |-> FALSE,
                             error_message |-> PStr(built.error),
                             apple_type |-> apple_type]).value

\* the apples, and how many are used
AppleTypes == {1, 2, 3, 4}
AppleCounts == {1, 2}

\* the answers to /item/recover: none, a refusal, and accepted ones whose
\* userGame is absent, empty, without the two fields, or complete
RecoverAnswers ==
    { [delivered |-> FALSE, resCode |-> "00", has_userGame |-> FALSE, userGame |-> <<>>],
      [delivered |-> TRUE, resCode |-> "99", has_userGame |-> FALSE, userGame |-> <<>>],
      [delivered |-> TRUE, resCode |-> "00", has_userGame |-> FALSE, userGame |-> <<>>],
      [delivered |-> TRUE, resCode |-> "00", has_userGame |-> TRUE, userGame |-> <<>>],
      [delivered |-> TRUE, resCode |-> "00", has_userGame |-> TRUE,
       userGame |-> <<[actPoint |-> Missing, actRecoverAt |-> Missing]>>],
      [delivered |-> TRUE, resCode |-> "00", has_userGame |-> TRUE,
       userGame |-> <<[actPoint |-> 0, actRecoverAt |-> 0]>>],
      [delivered |-> TRUE, resCode |-> "00", has_userGame |-> TRUE,
       userGame |-> <<[actPoint |-> 142, actRecoverAt |-> 1700000000]>>] }

NoService == [op |-> "none"]
ServiceStart == service = NoService
ServiceIdle == ServiceStart

\* one recover_ap call
RecoverAp ==
    /\ service = NoService
    /\ \E apple_type \in AppleTypes, num \in AppleCounts, answer \in RecoverAnswers :
         service' = [ op |-> "recover_ap", apple_type |-> apple_type, num |-> num,
                      answer |-> answer,
                      result |-> recover_ap(apple_type, num, answer) ]

-----------------------------------------------------------------------------
(* FollowerService *)

\* a FollowerInfo
FollowerInfo(user_id, follower_type, class_id, svt_id, equip_svt_id, equip_limit_count) ==
    [ user_id |-> user_id, follower_type |-> follower_type, class_id |-> class_id,
      svt_id |-> svt_id, equip_svt_id |-> equip_svt_id,
      equip_limit_count |-> equip_limit_count ]

\* a plausible slip: the limit break is checked whether or not an equip is
\* asked for
SkippedMlbAlways(follower, target_class_id, target_svt_id, target_equip_id, require_mlb, min_follower_type) ==
    \/ follower.follower_type < min_follower_type
    \/ follower.class_id # target_class_id
    \/ target_svt_id # None /\ follower.svt_id # target_svt_id.i
    \/ target_equip_id # None /\ follower.equip_svt_id # target_equip_id.i
    \/ require_mlb /\ follower.equip_limit_count # 4

\* the body of the loop of find_target_follower: whether it continues
Skipped(follower, target_class_id, target_svt_id, target_equip_id, require_mlb, min_follower_type) ==
    \/ follower.follower_type < min_follower_type
    \/ follower.class_id # target_class_id
    \/ target_svt_id # None /\ follower.svt_id # target_svt_id.i
    \/ /\ target_equip_id # None
       /\ \/ follower.equip_svt_id # target_equip_id.i
          \/ require_mlb /\ follower.equip_limit_count # 4

\* FollowerService.find_target_follower(...): the follower returned, or None
RECURSIVE find_target_follower(_, _, _, _, _, _)
find_target_follower(followers, target_class_id, target_svt_id, target_equip_id, require_mlb, min_follower_type) ==
    IF followers = <<>> THEN None
    ELSE IF Skipped(Head(followers), target_class_id, target_svt_id, target_equip_id,
                    require_mlb, min_follower_type)
    THEN find_target_follower(Tail(followers), target_class_id, target_svt_id,
                              target_equip_id, require_mlb, min_follower_type)
    ELSE Head(followers)

\* the longest follower list searched
MaxFollowers == 2

\* the followers a list is made of: strangers and friends, two classes, two
\* servants, two equips, limit broken or not
FollowerPool ==
    { FollowerInfo(1, 0, 1, 100, 9400, 0),
      FollowerInfo(2, 2, 1, 100, 9400, 4),
      FollowerInfo(3, 2, 2, 100, 9400, 4),
      FollowerInfo(4, 1, 1, 200, 9401, 4),
      FollowerInfo(5, 2, 1, 100, 9401, 0) }

FollowerLists == UNION { [1..n -> FollowerPool] : n \in 0..MaxFollowers }

TargetClassIds == {1}
TargetSvtIds == {None, PInt(100)}
TargetEquipIds == {None, PInt(9400)}
MinFollowerTypes == {0, 1}

\* one find_target_follower call
FindTargetFollower ==
    /\ service = NoService
    /\ \E followers \in FollowerLists, target_class_id \in TargetClassIds,
          target_svt_id \in TargetSvtIds, target_equip_id \in TargetEquipIds,
          require_mlb \in BOOLEAN, min_follower_type \in MinFollowerTypes :
         service' = [ op |-> "find_target_follower", followers |-> followers,
                      target_class_id |-> target_class_id,
                      target_svt_id |-> target_svt_id,
                      target_equip_id |-> target_equip_id,
                      require_mlb |-> require_mlb,
                      min_follower_type |-> min_follower_type,
                      result |-> find_target_follower(followers, target_class_id,
                                     target_svt_id, target_equip_id, require_mlb,
                                     min_follower_type) ]

-----------------------------------------------------------------------------
(* FollowerService.get_follower_list *)

\* a plausible slip: a cooldown one second short
CooldownShort == 11 - 1

\* REFRESH_COOLDOWN, in seconds
REFRESH_COOLDOWN == 11

\* time.time() when the service is constructed
StartTime == 1700000000

\* FollowerService.__init__
FollowerStart ==
    /\ last_refresh_time = 0
    /\ clock = StartTime
    /\ list_requests = <<>>
    /\ list_calls = <<>>
    /\ list_threads = [i \in Threads |-> [pc |-> "idle", elapsed |-> 0, remaining |-> 0]]

FollowerIdle == FollowerStart

\* whether the cooldown rejects a call that read elapsed
InCooldown(refresh, elapsed) == refresh /\ elapsed < REFRESH_COOLDOWN

\* a plausible slip: the time is recorded whether or not the call refreshes
RefreshTimeAlways(refresh, last, now) == now

\* self._last_refresh_time after an accepted call that read now at line 50
RefreshTimeAfter(refresh, last, now) == IF refresh THEN now ELSE last

\* a FollowerListResult
FollowerListResult(success, cooldown_remaining, error_message) ==
    [ success |-> success, cooldown_remaining |-> cooldown_remaining,
      error_message |-> error_message ]

\* the result of a call whose request was answered, or failed
ListResult(answer) ==
    IF answer = "ok" THEN FollowerListResult(TRUE, 0, "")
    ELSE FollowerListResult(FALSE, 0, "exception")

\* the most calls one service is given
MaxListCalls == 2

\* the seconds between the return of a call and the next call's reading of
\* the clock, between the two readings of an accepted refresh call, and
\* between the last reading and the request going out
Waits == {0, 9, 10, 11}
ReadGaps == {0, 1}
SendDelays == {0, 2}
ListAnswers == {"ok", "fails"}

\* get_follower_list(quest_id, quest_phase, refresh, is_event), called wait
\* seconds after the previous call returned
GetFollowerList ==
    /\ Len(list_calls) < MaxListCalls
    /\ \E refresh \in BOOLEAN, wait \in Waits, gap \in ReadGaps, delay \in SendDelays,
          answer \in ListAnswers :
         LET t_check == clock + wait
             elapsed == t_check - last_refresh_time
         IN  /\ ~refresh => gap = 0
             /\ IF InCooldown(refresh, elapsed)
                THEN /\ gap = 0 /\ delay = 0 /\ answer = "ok"
                     /\ UNCHANGED <<last_refresh_time, list_requests>>
                     /\ clock' = t_check
                     /\ list_calls' = Append(list_calls,
                           [ refresh |-> refresh, rejected |-> TRUE, t_check |-> t_check,
                             t_set |-> t_check, t_send |-> t_check, answer |-> answer,
                             before |-> last_refresh_time, after |-> last_refresh_time,
                             requests |-> 0,
                             result |-> FollowerListResult(FALSE, REFRESH_COOLDOWN - elapsed,
                                                           "cooldown") ])
                ELSE LET t_set == t_check + gap
                         t_send == t_set + delay
                         after == RefreshTimeAfter(refresh, last_refresh_time, t_set)
                     IN  /\ last_refresh_time' = after
                         /\ list_requests' = Append(list_requests,
                               [refresh |-> refresh, at |-> t_send, by |-> "main"])
                         /\ clock' = t_send
                         /\ list_calls' = Append(list_calls,
                               [ refresh |-> refresh, rejected |-> FALSE, t_check |-> t_check,
                                 t_set |-> t_set, t_send |-> t_send, answer |-> answer,
                                 before |-> last_refresh_time, after |-> after,
                                 requests |-> 1,
                                 result |-> ListResult(answer) ])
    /\ UNCHANGED list_threads

-----------------------------------------------------------------------------
(* get_follower_list(refresh=True) called from several threads: the reading *)
(* of the clock and of the recorded time, the recording, and the request    *)
(* are steps of their own                                                   *)

\* the seconds the clock runs while the threads are followed
MaxTicks == 12

\* a second passes
Tick ==
    /\ clock < StartTime + MaxTicks
    /\ clock' = clock + 1
    /\ UNCHANGED <<last_refresh_time, list_requests, list_calls, list_threads>>

\* elapsed = time.time() - self._last_refresh_time, and the test of it
ListCheck(i) ==
    /\ list_threads[i].pc = "idle"
    /\ LET elapsed == clock - last_refresh_time IN
       list_threads' = [list_threads EXCEPT ![i] =
           IF InCooldown(TRUE, elapsed)
           THEN [pc |-> "rejected", elapsed |-> elapsed,
                 remaining |-> REFRESH_COOLDOWN - elapsed]
           ELSE [pc |-> "accepted", elapsed |-> elapsed, remaining |-> 0]]
    /\ UNCHANGED <<last_refresh_time, clock, list_requests, list_calls>>

\* self._last_refresh_time = time.time()
ListRecord(i) ==
    /\ list_threads[i].pc = "accepted"
    /\ last_refresh_time' = RefreshTimeAfter(TRUE, last_refresh_time, clock)
    /\ list_threads' = [list_threads EXCEPT ![i].pc = "recorded"]
    /\ UNCHANGED <<clock, list_requests, list_calls>>

\* self.client.post("/follower/list", data, "Follower List")
ListPost(i) ==
    /\ list_threads[i].pc = "recorded"
    /\ list_requests' = Append(list_requests, [refresh |-> TRUE, at |-> clock, by |-> i])
    /\ list_threads' = [list_threads EXCEPT ![i].pc = "done"]
    /\ UNCHANGED <<last_refresh_time, clock, list_calls>>

-----------------------------------------------------------------------------
(* gacha_helper.select_gacha_sub *)

\* a gachaSub dict; condGroup is Missing when the dict has no such key, as in
\* the dicts fetch_combined_gacha_data builds
GachaSub(id, priority, openedAt, closedAt, commonReleaseId, condGroup) ==
    [ id |-> id, priority |-> priority, openedAt |-> openedAt, closedAt |-> closedAt,
      commonReleaseId |-> commonReleaseId, condGroup |-> condGroup ]

\* user_quest_map.get(cond_id): the last UserQuest of the list with that id
RECURSIVE QuestOf(_, _)
QuestOf(user_quest, cond_id) ==
    IF user_quest = <<>> THEN None
    ELSE IF user_quest[Len(user_quest)].quest_id = cond_id
    THEN user_quest[Len(user_quest)]
    ELSE QuestOf(SubSeq(user_quest, 1, Len(user_quest) - 1), cond_id)

\* the loop of _check_release_conditions over the conditions fetched
RECURSIVE ConditionsHold(_, _)
ConditionsHold(conditions, user_quest) ==
    IF conditions = <<>> THEN TRUE
    ELSE LET cond == Head(conditions)
             quest == QuestOf(user_quest, cond.condId)
             is_cleared == quest # None /\ quest.clear_num > 0
         IN  IF cond.condType = "questClear" /\ ~is_cleared THEN FALSE
             ELSE IF cond.condType = "questNotClear" /\ is_cleared THEN FALSE
             ELSE ConditionsHold(Tail(conditions), user_quest)

\* _check_release_conditions(common_release_id, user_quest, wiki_api_url);
\* release: what _fetch_common_release returns for each id
check_release_conditions(common_release_id, user_quest, release) ==
    IF common_release_id = 0 THEN TRUE
    ELSE IF release[common_release_id] = <<>> THEN TRUE
    ELSE ConditionsHold(release[common_release_id], user_quest)

\* sorted(active_subs, key=priority, reverse=True): a stable sort, equal
\* priorities stay in input order
RECURSIVE SortedByPriority(_)
SortedByPriority(subs) ==
    IF subs = <<>> THEN <<>>
    ELSE LET before == SortedByPriority(SubSeq(subs, 1, Len(subs) - 1))
             sub == subs[Len(subs)]
             ahead == {i \in 1..Len(before) : before[i].priority >= sub.priority}
             n == Cardinality(ahead)
         IN  SubSeq(before, 1, n) \o <<sub>> \o SubSeq(before, n + 1, Len(before))

\* the loop of select_gacha_sub over the sorted subs
RECURSIVE FirstReleased(_, _, _)
FirstReleased(sorted_subs, user_quest, release) ==
    IF sorted_subs = <<>> THEN None
    ELSE LET sub == Head(sorted_subs)
             common_release_id == GetOr(sub.condGroup, 0)
         IN  IF check_release_conditions(common_release_id, user_quest, release)
             THEN sub
             ELSE FirstReleased(Tail(sorted_subs), user_quest, release)

\* select_gacha_sub(gacha_subs, user_quest, wiki_api_url, current_time); now:
\* what get_timestamp() returns
select_gacha_sub(gacha_subs, user_quest, release, current_time, now) ==
    LET time == IF current_time = None THEN now ELSE current_time.i
        active_subs == SelectSeq(gacha_subs,
                           LAMBDA sub : sub.openedAt < time /\ time < sub.closedAt)
    IN  IF active_subs = <<>> THEN None
        ELSE FirstReleased(SortedByPriority(active_subs), user_quest, release)

\* the longest list of subs selected from
MaxSubs == 2

\* the subs a list is made of: with and without a release id, as
\* fetch_combined_gacha_data builds them and with a condGroup key, open from
\* 50 or 100 and closed at 100, 150 or 200
SubPool ==
    { GachaSub(1, 1, 50, 150, 0, Missing),
      GachaSub(2, 2, 50, 150, 5, Missing),
      GachaSub(3, 2, 100, 200, 6, 6),
      GachaSub(4, 3, 50, 100, 0, 0),
      GachaSub(5, 2, 50, 150, 5, 5) }

SubLists == UNION { [1..n -> SubPool] : n \in 0..MaxSubs }

\* the user's quests: none, quest 100 cleared once, quest 100 never cleared
UserQuests ==
    { <<>>, <<[quest_id |-> 100, clear_num |-> 1]>>, <<[quest_id |-> 100, clear_num |-> 0]>> }

\* the answers of the wiki API: release 5 needs quest 100 cleared and release
\* 6 needs it not cleared; or no answer at all
ReleaseTables ==
    { [id \in {5, 6} |->
          IF id = 5 THEN <<[condType |-> "questClear", condId |-> 100]>>
          ELSE <<[condType |-> "questNotClear", condId |-> 100]>>],
      [id \in {5, 6} |-> <<>>] }

\* the times of a selection: an opening and closing instant, and one inside
SelectTimes == {100, 120}

\* one select_gacha_sub call
SelectGachaSub ==
    /\ service = NoService
    /\ \E gacha_subs \in SubLists, user_quest \in UserQuests, release \in ReleaseTables,
          current_time \in {None} \cup {PInt(t) : t \in SelectTimes}, now \in SelectTimes :
         /\ current_time # None => now = 120
         /\ service' = [ op |-> "select_gacha_sub", gacha_subs |-> gacha_subs,
                         user_quest |-> user_quest, release |-> release,
                         time |-> IF current_time = None THEN now ELSE current_time.i,
                         result |-> select_gacha_sub(gacha_subs, user_quest, release,
                                                     current_time, now) ]

-----------------------------------------------------------------------------
(* ShopService.buy_blue_apple *)

\* math.ceil(a / b) for b > 0
CeilDiv(a, b) == -((-a) \div b)

\* time_tool.get_used_act_amount(full_recover_at); now: what get_timestamp()
\* returns
get_used_act_amount(full_recover_at, now) ==
    LET used == CeilDiv(full_recover_at - now, 300) IN
    IF used > 0 THEN used ELSE 0

\* a PurchaseResult, and the None buy_blue_apple may return instead
PurchaseResult(success, quantity, error_message) ==
    [ returned |-> "PurchaseResult", success |-> success, quantity |-> quantity,
      error_message |-> error_message ]
NoPurchase ==
    [ returned |-> "None", success |-> FALSE, quantity |-> 0, error_message |-> "" ]

\* _purchase_item(shop_id, num, name): the request is sent, and answered with
\* a purchase, with another nid, or not at all
purchase_item(num, answer) ==
    [ requests |-> 1,
      result |-> CASE answer = "purchase" -> PurchaseResult(TRUE, num, "")
                   [] answer = "refused" -> PurchaseResult(FALSE, 0, "nid")
                   [] OTHER -> PurchaseResult(FALSE, 0, "exception") ]

\* buy_blue_apple(player_info, player_item): what it returns and how many
\* /shop/purchase requests it sent
buy_blue_apple(act_max, act_full_recover_time, blue_apple_sapling, now, answer) ==
    IF blue_apple_sapling < 1
    THEN [requests |-> 0, result |-> PurchaseResult(FALSE, 0, "sapling")]
    ELSE LET act_now == act_max - get_used_act_amount(act_full_recover_time, now) IN
         IF act_now >= 40
         THEN LET available_buy_count == act_now \div 40
                  buy_count == IF blue_apple_sapling >= available_buy_count
                               THEN available_buy_count ELSE blue_apple_sapling
              IN  purchase_item(buy_count, answer)
         ELSE [requests |-> 0, result |-> NoPurchase]

\* the player: 140 AP at most, full in the past, now, or after 1, 6000, 30000
\* and 30001 seconds; no sapling, one, or three
ActMaxima == {140}
RecoverDelays == {-10, 0, 1, 6000, 30000, 30001}
Saplings == {0, 1, 3}
PurchaseAnswers == {"purchase", "refused", "none"}

\* one buy_blue_apple call
BuyBlueApple ==
    /\ service = NoService
    /\ \E act_max \in ActMaxima, delay \in RecoverDelays, blue_apple_sapling \in Saplings,
          now \in Timestamps, answer \in PurchaseAnswers :
         LET outcome == buy_blue_apple(act_max, now + delay, blue_apple_sapling, now, answer) IN
         service' = [ op |-> "buy_blue_apple", act_max |-> act_max, delay |-> delay,
                      blue_apple_sapling |-> blue_apple_sapling, answer |-> answer,
                      requests |-> outcome.requests, result |-> outcome.result ]

-----------------------------------------------------------------------------
(* time_tool.is_free_fp_draw_available *)

\* a plausible slip: the day is taken in UTC
JstAsUtc == 0 * 3600

\* timezone(timedelta(hours=+9)), in seconds
JST == 32400

\* the seconds of a day
DaySeconds == 86400

\* the date (year, month, day) of day z, day 0 being 1970-01-01, in the
\* proleptic Gregorian calendar datetime uses
CivilFromDays(z) ==
    LET shifted == z + 719468
        era == shifted \div 146097
        doe == shifted - era * 146097
        yoe == (doe - doe \div 1460 + doe \div 36524 - doe \div 146096) \div 365
        doy == doe - (365 * yoe + yoe \div 4 - yoe \div 100)
        mp == (5 * doy + 2) \div 153
        day == doy - (153 * mp + 2) \div 5 + 1
        month == IF mp < 10 THEN mp + 3 ELSE mp - 9
        year == yoe + era * 400 + (IF month <= 2 THEN 1 ELSE 0)
    IN  [year |-> year, month |-> month, day |-> day]

\* the day number of a date
DaysFromCivil(year, month, day) ==
    LET y == IF month <= 2 THEN year - 1 ELSE year
        era == y \div 400
        yoe == y - era * 400
        doy == (153 * (IF month > 2 THEN month - 3 ELSE month + 9) + 2) \div 5 + day - 1
        doe == yoe * 365 + yoe \div 4 - yoe \div 100 + doy
    IN  era * 146097 + doe - 719468

\* datetime.fromtimestamp(t, utc).astimezone(tz): the date in the zone
DateIn(t, offset) == CivilFromDays((t + offset) \div DaySeconds)

\* datetime(year, month, day, tzinfo=tz).timestamp()
MidnightOf(date, offset) ==
    DaysFromCivil(date.year, date.month, date.day) * DaySeconds - offset

\* is_free_fp_draw_available(last_free_draw_timestamp_utc); now: what
\* get_timestamp() returns
is_free_fp_draw_available(last_free_draw_timestamp_utc, now) ==
    LET dt_japan == DateIn(last_free_draw_timestamp_utc, JST)
        next_midnight_timestamp == MidnightOf(dt_japan, JST) + DaySeconds
    IN  now >= next_midnight_timestamp

\* the draws: around and at JST midnights of 2023-11-15, 1970-01-01,
\* 2024-03-01 and 2024-01-01, in the afternoon, on 2000-02-29, before 1970
DrawTimes ==
    { 1699973999, 1699974000, 1700028000, -1, -32400, -32401, 0,
      1709218799, 1709218800, 951750000, 1704034799, 2147300000 }

\* the time that has passed since the draw
Elapsed == {0, 1, 32399, 32400, 86399, 86400}

\* one is_free_fp_draw_available call
FreeDrawAvailable ==
    /\ service = NoService
    /\ \E t \in DrawTimes, e \in Elapsed :
         service' = [ op |-> "is_free_fp_draw_available", t |-> t, now |-> t + e,
                      result |-> is_free_fp_draw_available(t, t + e) ]

-----------------------------------------------------------------------------
(* gacha_helper.fetch_gacha_data, gacha_helper.fetch_gacha_sub_data *)

\* the parameters of _create_retry_session
RetrySessionParameters == {"retries", "backoff_factor", "status_forcelist"}

\* _create_retry_session(**kwargs): a session that retries kwargs.retries
\* times; a keyword that is no parameter raises TypeError
create_retry_session(kwargs) ==
    IF ~(DOMAIN kwargs \subseteq RetrySessionParameters) THEN Raised("TypeError")
    ELSE Ok([retries |-> kwargs.retries])

\* session.get(url, timeout) and response.raise_for_status(): attempts is the
\* number of attempts that fail before the server answers, status its answer
SessionGet(session, attempts, status) ==
    IF attempts > session.retries THEN Raised("requests.ConnectionError")
    ELSE IF status # 200 THEN Raised("requests.HTTPError")
    ELSE Ok("json")

\* fetch_gacha_data(url, retries, timeout) and fetch_gacha_sub_data(url,
\* retries, timeout): the outcome, and whether session.get was reached
fetch_gacha_data(url, retries, timeout, attempts, status) ==
    LET session == create_retry_session([retries |-> retries, timeout |-> timeout]) IN
    IF session.ok
    THEN [reached |-> TRUE, outcome |-> SessionGet(session.value, attempts, status)]
    ELSE [reached |-> FALSE, outcome |-> session]

\* the arguments: the defaults (3 retries, 30 seconds) and others
FetchFunctions == {"fetch_gacha_data", "fetch_gacha_sub_data"}
FetchRetries == {0, 3}
FetchTimeouts == {5, 30}
FailedAttempts == {0, 1, 4}
HttpStatuses == {200, 404}

\* one fetch_gacha_data or fetch_gacha_sub_data call
FetchGachaData ==
    /\ service = NoService
    /\ \E function \in FetchFunctions, retries \in FetchRetries, timeout \in FetchTimeouts,
          attempts \in FailedAttempts, status \in HttpStatuses :
         LET call == fetch_gacha_data(function, retries, timeout, attempts, status) IN
         service' = [ op |-> "fetch", function |-> function, retries |-> retries,
                      timeout |-> timeout, attempts |-> attempts, status |-> status,
                      reached |-> call.reached, ok |-> call.outcome.ok,
                      error |-> call.outcome.error ]

-----------------------------------------------------------------------------
(* get_auth_code as a pure function: the dicts it is applied to *)

NoCall == [canon |-> <<"?">>, code |-> <<"?">>, called |-> FALSE]
Called(d) == [canon |-> CanonicalString(d), code |-> get_auth_code(d), called |-> TRUE]

AuthKeys == { <<"a">>, <<"b">>, <<"a", "b">>, <<"B">> }
AuthValues == { None, PStr(<<>>), PStr(<<"x">>), PInt(0), PInt(5) }

\* the dicts of n items whose keys are distinct
DictsOfLen(n) ==
    { d \in [1..n -> [k : AuthKeys, v : AuthValues]] :
        \A i, j \in 1..n : i # j => d[i].k # d[j].k }

InputDicts == UNION { DictsOfLen(n) : n \in 0..MaxPairs }

\* the same items inserted in another order
Reorderings(d) ==
    { [i \in 1..Len(d) |-> d[p[i]]] :
        p \in { q \in [1..Len(d) -> 1..Len(d)] :
                  \A i, j \in 1..Len(d) : i # j => q[i] # q[j] } }

\* None and "" exchanged at index i
NullSwap(d, i) ==
    [d EXCEPT ![i].v = IF d[i].v = None THEN PStr(<<>>) ELSE None]

AuthStart ==
    /\ par \in InputDicts
    /\ authOut = NoCall
    /\ par2 = <<>>
    /\ authOut2 = NoCall
    /\ authRel = "none"

AuthIdle ==
    /\ par = <<>>
    /\ authOut = NoCall
    /\ par2 = <<>>
    /\ authOut2 = NoCall
    /\ authRel = "none"

\* get_auth_code(par)
AuthCall ==
    /\ ~authOut.called
    /\ authOut' = Called(par)
    /\ UNCHANGED <<par, par2, authOut2, authRel>>

\* the same call once more
AuthCallAgain ==
    /\ authOut.called /\ authRel = "none"
    /\ par2' = par
    /\ authOut2' = Called(par)
    /\ authRel' = "again"
    /\ UNCHANGED <<par, authOut>>

\* get_auth_code on the same content inserted in another order
AuthCallReordered ==
    /\ authOut.called /\ authRel = "none"
    /\ \E q \in Reorderings(par) :
         /\ q # par
         /\ par2' = q
         /\ authOut2' = Called(q)
    /\ authRel' = "perm"
    /\ UNCHANGED <<par, authOut>>

\* get_auth_code on the same dict with one None replaced by "" or back
AuthCallNullSwapped ==
    /\ authOut.called /\ authRel = "none"
    /\ \E i \in 1..Len(par) :
         /\ par[i].v \in {None, PStr(<<>>)}
         /\ par2' = NullSwap(par, i)
         /\ authOut2' = Called(NullSwap(par, i))
    /\ authRel' = "nullswap"
    /\ UNCHANGED <<par, authOut>>

-----------------------------------------------------------------------------
(* Reading a canonical string back: used by the properties only *)

\* text.split(c)
RECURSIVE SplitAcc(_, _, _, _)
SplitAcc(text, c, cur, out) ==
    IF text = <<>> THEN Append(out, cur)
    ELSE IF Head(text) = c THEN SplitAcc(Tail(text), c, <<>>, Append(out, cur))
    ELSE SplitAcc(Tail(text), c, Append(cur, Head(text)), out)

\* the key=value pairs of a canonical string
Segments(canon) == IF canon = <<>> THEN <<>> ELSE SplitAcc(canon, "&", <<>>, <<>>)

\* what precedes the first "=" of a pair, and what follows it
RECURSIVE BeforeEq(_)
BeforeEq(seg) ==
    IF seg = <<>> \/ Head(seg) = "=" THEN <<>>
    ELSE <<Head(seg)>> \o BeforeEq(Tail(seg))

AfterEq(seg) == SubSeq(seg, Len(BeforeEq(seg)) + 2, Len(seg))

IsDecimal(text) ==
    /\ text # <<>>
    /\ \A i \in 1..Len(text) : text[i] \in Range(Digits)

\* int(text) for a string of digits
RECURSIVE ParseNat(_)
ParseNat(text) ==
    IF text = <<>> THEN 0
    ELSE 10 * ParseNat(SubSeq(text, 1, Len(text) - 1))
         + (IndexOf(Digits, text[Len(text)]) - 1)

KeySet(d) == {d[i].k : i \in 1..Len(d)}

\* the pairs of canon name exactly the keys of d, in strictly ascending order
AscendingPairs(d, canon) ==
    LET segs == Segments(canon) IN
    /\ Len(segs) = Len(d)
    /\ {BeforeEq(segs[i]) : i \in 1..Len(segs)} = KeySet(d)
    /\ \A i, j \in 1..Len(segs) : i < j => StrLess(BeforeEq(segs[i]), BeforeEq(segs[j]))

\* C3: the canonical string of get_auth_code lists the keys of the dict in
\* ascending order, one key=value pair each, joined by "&"; a repeated call
\* and a call on the same items inserted in another order give the same
\* canonical string and the same code.
Thm_C3 ==
    /\ authOut.called => AscendingPairs(par, authOut.canon)
    /\ authOut2.called => AscendingPairs(par2, authOut2.canon)
    /\ authRel \in {"again", "perm"} =>
          /\ authOut2.canon = authOut.canon
          /\ authOut2.code = authOut.code

\* a three-key dict whose insertion order is not ascending, and a reordering
\* of it that is a different sequence, both signed
Wit_C3 ==
    /\ authRel = "perm"
    /\ Len(par) = 3
    /\ par2 # par
    /\ DictKeys(par) # SortedKeys(par)
    /\ DictKeys(par) = << <<"b">>, <<"a", "b">>, <<"B">> >>
    /\ authOut2.code = authOut.code

\* the pair of canon that starts with key
PairOf(canon, key) ==
    LET segs == Segments(canon) IN
    segs[CHOOSE i \in 1..Len(segs) : BeforeEq(segs[i]) = key]

\* the pair of every key is key= for None and "", and key=<value> otherwise
PairsRendered(d, canon) ==
    \A i \in 1..Len(d) :
        LET seg == PairOf(canon, d[i].k)
            v == d[i].v
        IN  /\ BeforeEq(seg) = d[i].k
            /\ Len(seg) > Len(d[i].k) /\ seg[Len(d[i].k) + 1] = "="
            /\ (v = None \/ v = PStr(<<>>)) => AfterEq(seg) = <<>>
            /\ (v.t = "str" /\ v.s # <<>>) => AfterEq(seg) = v.s
            /\ v.t = "int" => /\ IsDecimal(AfterEq(seg))
                              /\ ParseNat(AfterEq(seg)) = v.i

ExampleNone == << Item(<<"a">>, None), Item(<<"b">>, PInt(5)) >>
ExampleEmpty == << Item(<<"a">>, PStr(<<>>)), Item(<<"b">>, PInt(5)) >>

\* C4: None and "" both canonicalize to key=, every other value (the
\* integer 0 too) to key=<value>; {"a": None, "b": 5} and {"a": "", "b": 5}
\* both give a=&b=5, and exchanging None and "" changes neither the
\* canonical string nor the code.
Thm_C4 ==
    /\ authOut.called => PairsRendered(par, authOut.canon)
    /\ authOut2.called => PairsRendered(par2, authOut2.canon)
    /\ (authOut.called /\ par \in {ExampleNone, ExampleEmpty}) =>
          authOut.canon = <<"a", "=", "&", "b", "=", "5">>
    /\ authRel = "nullswap" =>
          /\ authOut2.canon = authOut.canon
          /\ authOut2.code = authOut.code

\* None exchanged for "" beside an integer 0, which is rendered as B=0
Wit_C4 ==
    /\ authRel = "nullswap"
    /\ par = << Item(<<"a">>, None), Item(<<"b">>, PInt(5)), Item(<<"B">>, PInt(0)) >>
    /\ par2[1].v = PStr(<<>>)
    /\ authOut2.canon = <<"B", "=", "0", "&", "a", "=", "&", "b", "=", "5">>

-----------------------------------------------------------------------------
(* The client's envelopes *)

\* the calls that returned an envelope
Returned == {i \in 1..Len(calls) : calls[i].ok}

KeyOfEnvelope(i) == DictGet(Envelope(i), F_idempotencyKey)

\* C1: whatever path computes an auth code (_get_basic_form_data with
\* with_auth, get_login_data, create_form_data, post), the dict handed to
\* get_auth_code holds no authCode key.
Claim_C1 ==
    lastAuth.path # "none" => ~DictHas(lastAuth.par, F_authCode)

\* the code of envelope i is get_auth_code of exactly its other fields
CodeCoversOthers(i) ==
    /\ DictHas(Envelope(i), F_authCode)
    /\ DictGet(Envelope(i), F_authCode)
          = PStr(get_auth_code(DictDel(Envelope(i), F_authCode)))

\* C2: the authCode of every envelope get_login_data and create_form_data
\* return is get_auth_code of exactly the other fields of that envelope, as
\* they are when it is returned, and post sends the envelope as returned.
Claim_C2 ==
    /\ \A i \in Returned : calls[i].op \in {"login", "form"} => CodeCoversOthers(i)
    /\ (sent.posted /\ sent.from # 0) => sent.data = Envelope(sent.from)

\* the template holds no per-request field
TemplateClean ==
    /\ DictGet(request_data, F_idempotencyKey) = None
    /\ DictGet(request_data, F_lastAccessTime) = None
    /\ DictGet(request_data, F_authCode) = None

\* the caller of call i did not name the idempotency key in extra_fields
KeyNotSupplied(i) == ~DictHas(calls[i].extra, F_idempotencyKey)

Logins == {i \in 1..Len(calls) : calls[i].op = "login"}

\* C6: the idempotencyKeySignature of every login envelope is the signature
\* of str(userId) followed by idempotencyKey, both as that envelope carries
\* them; sign_data is invoked once per get_login_data call and by no other.
Thm_C6 ==
    /\ \A i \in Returned :
          calls[i].op = "login" =>
              DictGet(calls[i].env, F_idempotencyKeySignature)
                  = PStr(RsaSignB64(IntStr(DictGet(calls[i].env, F_userId).i)
                                    \o DictGet(calls[i].env, F_idempotencyKey).s))
    /\ \A i \in Returned :
          calls[i].op # "login" => ~DictHas(Envelope(i), F_idempotencyKeySignature)
    /\ signCalls = Cardinality(Logins)

\* a form envelope, then a login envelope signed over the second key
Wit_C6 ==
    /\ Len(calls) = 2
    /\ Returned = {1, 2}
    /\ calls[1].op = "form" /\ calls[2].op = "login"
    /\ signCalls = 1
    /\ DictGet(calls[2].env, F_idempotencyKeySignature)
          = PStr(<<"S", "(", "7", "u", "u", "i", "d", "-", "2", ")">>)

\* C7: the key file is opened and parsed at most once in the client's life.
Claim_C7 == keyLoads <= 1

-----------------------------------------------------------------------------
(* The battle payload *)

\* the logs field of the action document
StartsWith(text, prefix) ==
    Len(text) >= Len(prefix) /\ SubSeq(text, 1, Len(prefix)) = prefix

LogsPrefix(logs) == <<"{", "\"", "l", "o", "g", "s", "\"", ":", "\"">> \o logs \o <<"\"", ",">>

\* C8: with custom_logs given (any string, not None) the logs of the action
\* document are that string and no log is generated.
Claim_C8 ==
    (battle.called /\ battle.custom_logs # None) =>
        /\ ~battle.generated
        /\ battle.built
        /\ battle.logs = battle.custom_logs.s
        /\ StartsWith(battle.payload.action, LogsPrefix(battle.custom_logs.s))

\* the two-character tokens of a log
Tokens(logs) == [i \in 1..(Len(logs) \div 2) |-> SubSeq(logs, 2 * i - 1, 2 * i)]

\* C9: for W >= 0 waves and S >= 1 servants a generated log is 3*W tokens of
\* two characters, a slot in 1..min(S,3) followed by a card of B, C, D.
Thm_C9 ==
    (battle.called /\ battle.generated /\ setup_result.my_deck_svt_count >= 1) =>
        /\ battle.built
        /\ Len(battle.logs) = 6 * setup_result.enemy_deck_pages
        /\ \A i \in 1..(3 * setup_result.enemy_deck_pages) :
              LET token == Tokens(battle.logs)[i] IN
              /\ token[1] \in Range(Digits)
              /\ ParseNat(<<token[1]>>) >= 1
              /\ ParseNat(<<token[1]>>) <= Min(setup_result.my_deck_svt_count, 3)
              /\ token[2] \in {"B", "C", "D"}

\* one servant, two waves: twelve characters
Wit_C9 ==
    /\ battle.called /\ battle.generated /\ battle.built
    /\ setup_result.my_deck_svt_count = 1
    /\ setup_result.enemy_deck_pages = 2
    /\ Len(battle.logs) = 12
    /\ battle.logs = <<"1", "B", "1", "D", "1", "C", "1", "C", "1", "B", "1", "D">>

\* C10: usedTurnList has W entries, all 0 but the last, which is 1, for
\* W >= 1 waves, and is [1] for no wave.
Thm_C10 ==
    (battle.called /\ battle.built) =>
        LET W == setup_result.enemy_deck_pages
            list == battle.payload.usedTurnList
        IN  /\ W >= 1 => /\ Len(list) = W
                         /\ list[W] = 1
                         /\ \A i \in 1..(W - 1) : list[i] = 0
            /\ W = 0 => list = <<1>>
            /\ W = 3 => list = <<0, 0, 1>>

\* three waves
Wit_C10 ==
    /\ battle.called /\ battle.built
    /\ setup_result.enemy_deck_pages = 3
    /\ battle.payload.usedTurnList = <<0, 0, 1>>

\* the dt field of the action document
DtOf(action) ==
    LET marker == <<"\"", "d", "t", "\"", ":", "\"">>
        starts == {i \in 1..Len(action) :
                     /\ i + Len(marker) - 1 <= Len(action)
                     /\ SubSeq(action, i, i + Len(marker) - 1) = marker}
        from == (CHOOSE i \in starts : \A j \in starts : i <= j) + Len(marker)
        ends == {i \in from..Len(action) : action[i] = "\""}
        to == CHOOSE i \in ends : \A j \in ends : i <= j
    IN  SubSeq(action, from, to - 1)

\* u<uniqueId> for each enemy of a page, in page order
RECURSIVE PageMarks(_)
PageMarks(page) ==
    IF page = <<>> THEN <<>>
    ELSE <<"u">> \o NatStr(UniqueIdOf(Head(page))) \o PageMarks(Tail(page))

\* C11: dt is the concatenation, in page order, of u<uniqueId> for the
\* enemies of the last enemy-deck page that battle setup returned, and of no
\* earlier page; with no page dt is empty; pages [[101,102],[201]] give "u201".
Thm_C11 ==
    (battle.called /\ battle.built /\ setup_response.ok) =>
        LET deck == setup_response.enemyDeck
            dt == DtOf(battle.payload.action)
        IN  /\ deck = <<>> => dt = <<>>
            /\ deck # <<>> => dt = PageMarks(deck[Len(deck)])
            /\ deck = << <<101, 102>>, <<201>> >> => dt = <<"u", "2", "0", "1">>

\* two pages, the enemies of the first are not marked
Wit_C11 ==
    /\ battle.called /\ battle.built /\ setup_response.ok
    /\ setup_response.enemyDeck = << <<101, 102>>, <<201>> >>
    /\ DtOf(battle.payload.action) = <<"u", "2", "0", "1">>

-----------------------------------------------------------------------------
(* Calls from several threads *)

\* whether text holds pattern
Contains(text, pattern) ==
    \E i \in 1..(Len(text) - Len(pattern) + 1) :
        SubSeq(text, i, i + Len(pattern) - 1) = pattern

\* the text a code is the digest of
TextOfCode(code) == SubSeq(code, 3, Len(code) - 1)

\* the code of an envelope is a digest over the key and the time the
\* envelope carries
CodeOverOwnFields(env) ==
    LET text == TextOfCode(DictGet(env, F_authCode).s) IN
    /\ Contains(text, <<"&">> \o F_idempotencyKey \o <<"=">>
                      \o DictGet(env, F_idempotencyKey).s \o <<"&">>)
    /\ Contains(text, <<"&">> \o F_lastAccessTime \o <<"=">>
                      \o NatStr(DictGet(env, F_lastAccessTime).i) \o <<"&">>)

ThreadsDone == {i \in Threads : threads[i].pc = "done"}

\* C17: in every interleaving of get_login_data and create_form_data calls
\* from several threads, each returned envelope carries the time its own call
\* read and the key generated for it, its authCode is computed over that key
\* and time, no envelope carries a key generated for another call, and the
\* shared template is never modified.
Thm_C17 ==
    /\ \A i \in ThreadsDone :
         LET th == threads[i] IN
         /\ DictGet(th.env, F_lastAccessTime) = PInt(th.t)
         /\ ~DictHas(th.extra, F_idempotencyKey) =>
                DictGet(th.env, F_idempotencyKey) = PStr(th.gen)
         /\ CodeOverOwnFields(th.env)
         /\ \A j \in Threads \ {i} :
                threads[j].gen # <<>> =>
                    DictGet(th.env, F_idempotencyKey) # PStr(threads[j].gen)
         /\ th.op = "form" => ~DictHas(th.env, F_idempotencyKeySignature)
    /\ TemplateClean
    /\ request_data = BasicFormData(Account.id, Account.auth_key, GameData.app_version,
                                    GameData.date_ver, GameData.ver_code, GameData.data_ver)

\* a login and a form call that ran inside each other, at different times
Wit_C17 ==
    /\ ThreadsDone = Threads
    /\ threads["T1"].op = "login" /\ threads["T2"].op = "form"
    /\ threads["T1"].overlapped /\ threads["T2"].overlapped
    /\ threads["T1"].gen = Uuid4(2) /\ threads["T2"].gen = Uuid4(1)
    /\ threads["T1"].t < threads["T2"].t

-----------------------------------------------------------------------------
(* userState *)

\* bit k of the two's complement form of n
BitOf(n, k) == (n \div (2 ^ k)) % 2

\* the integer below 2^30 in size whose bits are given by bit
RECURSIVE FromBits(_, _)
FromBits(bit, k) ==
    IF k = 30 THEN -(bit[30]) * (2 ^ 30)
    ELSE bit[k] * (2 ^ k) + FromBits(bit, k + 1)

\* ((-lastAccessTime) >> 2) ^ (userId & crc), bit by bit
UserStateOf(lastAccessTime, userId, crc) ==
    LET shifted == -((lastAccessTime + 3) \div 4)
        bit == [k \in 0..30 |->
                   IF BitOf(shifted, k) # (BitOf(userId, k) * BitOf(crc, k)) THEN 1 ELSE 0]
    IN  FromBits(bit, 0)

\* what Python computes for the account and the folder crc of the model
GoldenUserState ==
    { <<1700000000, <<"-", "4", "2", "4", "9", "9", "9", "9", "9", "5">> >>,
      <<1700000003, <<"-", "4", "2", "5", "0", "0", "0", "0", "0", "6">> >> }

\* C18: in every login envelope, userState is the decimal string of
\* ((-lastAccessTime) >> 2) XOR (userId AND asset_bundle_folder_crc), computed
\* from the lastAccessTime and userId the envelope carries, and it is among the
\* fields the auth code is computed over; envelopes built by create_form_data
\* carry no userState.
Thm_C18 ==
    /\ \A i \in Returned :
          calls[i].op = "login" =>
              LET env == calls[i].env
                  state == DictGet(env, F_userState)
              IN  /\ state = PStr(IntStr(UserStateOf(DictGet(env, F_lastAccessTime).i,
                                                     DictGet(env, F_userId).i,
                                                     GameData.asset_bundle_folder_crc)))
                  /\ \A golden \in GoldenUserState :
                        DictGet(env, F_lastAccessTime) = PInt(golden[1]) =>
                            state = PStr(golden[2])
                  /\ Contains(TextOfCode(DictGet(env, F_authCode).s),
                              <<"&">> \o F_userState \o <<"=">> \o state.s \o <<"&">>)
    /\ \A i \in Returned :
          calls[i].op # "login" => ~DictHas(Envelope(i), F_userState)
    /\ lastAuth.path = "get_login_data" =>
          /\ DictHas(lastAuth.par, F_userState)
          /\ DictGet(lastAuth.par, F_userState).t = "str"

\* a login envelope at a time that is no multiple of four, after a form
\* envelope
Wit_C18 ==
    /\ Len(calls) = 2
    /\ calls[1].ok /\ calls[1].op # "login"
    /\ calls[2].ok /\ calls[2].op = "login"
    /\ DictGet(calls[2].env, F_lastAccessTime) = PInt(1700000003)
    /\ DictGet(calls[2].env, F_userState) = PStr(IntStr(-425000006))
    /\ lastAuth.path = "get_login_data"

-----------------------------------------------------------------------------
(* The codecs *)

\* C12: unsealing a sealed record gives back the serialized record, for every
\* serialized and compressed length, block multiples included: the padding
\* the seal added is removed once.
Claim_C12 ==
    codec.op = "roundtrip" =>
        /\ codec.result.ok
        /\ codec.result.value = Packb(codec.record)

\* the value of the low 4 bytes of a packed field, as halves
LowWord(field) == << field[3] + 256 * field[4], field[1] + 256 * field[2] >>

\* x + 1 and x + 2^31 + 1 on 32-bit halves, with the carry into bit 32
Succ(x) ==
    IF x[2] < 65535 THEN <<0, x[1], x[2] + 1>>
    ELSE IF x[1] < 65535 THEN <<0, x[1] + 1, 0>>
    ELSE <<1, 0, 0>>

\* the status of some ids, as zlib and struct compute it
GoldenStatus ==
    { << <<0, 12345>>, <<1, 2354>>, <<34032, 32938>> >>,
      << <<0, 7>>, <<0, 9>>, <<21653, 60472>> >>,
      << <<0, 0>>, <<0, 0>>, <<56185, 54333>> >>,
      << <<0, 7>>, <<0, 0>>, <<3662, 51077>> >>,
      << <<65535, 65535>>, <<65535, 65535>>, <<51983, 15086>> >>,
      << <<32767, 65535>>, <<32768, 0>>, <<63357, 45975>> >>,
      << <<0, 65535>>, <<1, 0>>, <<25786, 23278>> >>,
      << <<0, 1>>, <<0, 0>>, <<61893, 25781>> >>,
      << <<0, 0>>, <<0, 1>>, <<62129, 24783>> >> }

\* C14: calc_battle_status is the CRC32, within 32 bits, of the 40 bytes that
\* are the little-endian signed 64-bit encodings of user_id + 1, -0x408FD5, 0,
\* battle_id - 0x7FFFFFFF and -0x25ACF6: the three constants are the same
\* bytes in every call, and the result is a value of 0..2^32-1.
Thm_C14 ==
    codec.op = "calc_battle_status" =>
        LET packed == codec.packed
            field(i) == SubSeq(packed, 8 * i - 7, 8 * i)
            next == Succ(codec.user_id)
        IN  /\ Len(packed) = 40
            /\ \A i \in 1..40 : packed[i] \in 0..255
            /\ LowWord(field(1)) = <<next[2], next[3]>>
            /\ SubSeq(field(1), 5, 8) = <<next[1], 0, 0, 0>>
            /\ field(2) = <<43, 112, 191, 255, 255, 255, 255, 255>>
            /\ field(3) = <<0, 0, 0, 0, 0, 0, 0, 0>>
            /\ codec.battle_id = <<0, 9>> =>
                 field(4) = <<10, 0, 0, 128, 255, 255, 255, 255>>
            /\ codec.battle_id = <<65535, 65535>> =>
                 field(4) = <<0, 0, 0, 128, 0, 0, 0, 0>>
            /\ (field(4)[8] = 255) <=>
                 (codec.battle_id[1] < 32767
                  \/ (codec.battle_id[1] = 32767 /\ codec.battle_id[2] < 65535))
            /\ field(5) = <<10, 83, 218, 255, 255, 255, 255, 255>>
            /\ codec.result[1] \in 0..65535
            /\ codec.result[2] \in 0..65535
            /\ \A g \in GoldenStatus :
                 (codec.user_id = g[1] /\ codec.battle_id = g[2]) => codec.result = g[3]

\* the status of user 12345 in battle 67890 is 2230354090
Wit_C14 ==
    /\ codec.op = "calc_battle_status"
    /\ codec.user_id = <<0, 12345>>
    /\ codec.battle_id = <<1, 2354>>
    /\ codec.result = <<34032, 32938>>

\* the calls of mouse_game5 on a text from the server that decrypted something
Unsealed ==
    /\ codec.op = "mouse_game5"
    /\ codec.result.ppt # <<>>

\* C13: in mouse_game5 a decrypted buffer whose final byte is 0 or above 32 is
\* handed to decompression whole and nothing raises in the padding removal; a
\* final byte p in 1..32 has exactly p trailing bytes removed.
Claim_C13 ==
    Unsealed =>
        LET ppt == codec.result.ppt
            p == LastByte(ppt)
        IN  /\ (p = 0 \/ p > 32) =>
                 /\ codec.result.stage # "decrypt"
                 /\ codec.result.to_gzip = ppt
            /\ (1 <= p /\ p <= 32) =>
                 /\ codec.result.stage # "decrypt"
                 /\ codec.result.to_gzip = DropLast(ppt, p)

\* a buffer that is one gzip member: header, deflate stream, CRC and length
IsGzipMember(b) ==
    /\ Len(b) >= 5
    /\ b[1].k = "deflate"
    /\ ByteLen(b) >= b[1].n + 4

\* the ciphertext of a text handed to a decode function
CipherOf(call) ==
    IF call.op = "get_asset_bundle" THEN DropFirst(call.text.bytes, 32)
    ELSE call.text.bytes

\* C15: mouse_game5 and get_asset_bundle return a value only for input that
\* passes every stage: text that is base64, a ciphertext of whole blocks that
\* is not empty, decrypted data that is a gzip member, and for an asset bundle
\* a well-formed record; any other input ends in an exception naming the stage.
Claim_C15 ==
    codec.op \in {"mouse_game5", "get_asset_bundle"} =>
        /\ codec.result.ok =>
             /\ codec.text.valid
             /\ CipherOf(codec) # <<>>
             /\ ByteLen(CipherOf(codec)) % BLOCK_SIZE = 0
             /\ IsGzipMember(codec.result.to_gzip)
             /\ codec.op = "get_asset_bundle" =>
                  (Len(codec.result.value) = 1 /\ codec.result.value[1].k = "msgpack")
        /\ ~codec.result.ok =>
             /\ codec.result.stage \in {"base64", "decrypt", "gzip", "msgpack"}
             /\ codec.result.error # ""

\* an asset bundle sealed as the server seals it: a 32-byte IV, then the
\* record serialized, compressed, padded and encrypted under that IV
WellSealedAsset(bytes) ==
    /\ Len(bytes) = 33
    /\ \A i \in 1..32 : bytes[i].k = "byte"
    /\ bytes[33].k = "cipher"
    /\ bytes[33].key = ASSET_BUNDLE_KEY
    /\ bytes[33].iv = SubSeq(bytes, 1, 32)
    /\ LET ppt == bytes[33].of
       IN  /\ ppt[1].k = "deflate"
           /\ Len(ppt[1].of) = 1
           /\ ppt[1].of[1].k = "msgpack"
           /\ EndsInByte(ppt)
           /\ LastByte(ppt) = ByteLen(ppt) - (ppt[1].n + 4)

\* C16: get_asset_bundle takes the first 32 bytes of the decoded blob as the
\* IV and the rest as the ciphertext, decrypts under the asset-bundle key, and
\* unpads, gunzips and deserializes: a bundle sealed that way comes back as its
\* record, one sealed under the battle key and IV does not.
Thm_C16 ==
    (codec.op = "get_asset_bundle" /\ codec.text.valid) =>
        LET bytes == codec.text.bytes IN
        /\ codec.result.ok =>
             /\ codec.result.key = ASSET_BUNDLE_KEY
             /\ codec.result.key # BATTLE_KEY
             /\ codec.result.iv = TakeFirst(bytes, 32)
             /\ codec.result.cipher = DropFirst(bytes, 32)
             /\ WellSealedAsset(bytes)
        /\ WellSealedAsset(bytes) =>
             /\ codec.result.ok
             /\ codec.result.value = bytes[33].of[1].of
             /\ codec.result.to_gzip = DropLast(bytes[33].of, LastByte(bytes[33].of))

\* a bundle under the IV 1, 2, .., 32 decoded
Wit_C16 ==
    /\ codec.op = "get_asset_bundle"
    /\ codec.text.valid
    /\ WellSealedAsset(codec.text.bytes)
    /\ codec.result.ok
    /\ codec.result.iv = Bytes([i \in 1..32 |-> i])
    /\ codec.result.value = <<Run("msgpack", 200, "A", <<>>)>>

-----------------------------------------------------------------------------
(* The services *)

Recovered == service.op = "recover_ap"

\* the request went through and the response check passed
RecoverAccepted == service.answer.delivered /\ service.answer.resCode = "00"

\* the response parses: userGame, when present, has a first entry
RecoverParses == service.answer.has_userGame => service.answer.userGame # <<>>

\* userGame[0].actPoint of the response, 0 without one
ActPointOf(answer) ==
    IF ~answer.has_userGame THEN 0 ELSE GetOr(answer.userGame[1].actPoint, 0)

\* C19: recover_ap returns success=True with current_ap taken from the
\* response's userGame.actPoint whenever the /item/recover request succeeds;
\* success=False is returned only when the request, the response check or the
\* response parsing fails.
Claim_C19 ==
    Recovered =>
        /\ (RecoverAccepted /\ RecoverParses) =>
              /\ service.result.success
              /\ service.result.current_ap = ActPointOf(service.answer)
        /\ ~service.result.success => ~(RecoverAccepted /\ RecoverParses)

Searched == service.op = "find_target_follower"

\* the criteria other than the limit break
MeetsCriteria(follower) ==
    /\ follower.follower_type >= service.min_follower_type
    /\ follower.class_id = service.target_class_id
    /\ service.target_svt_id # None => follower.svt_id = service.target_svt_id.i
    /\ service.target_equip_id # None => follower.equip_svt_id = service.target_equip_id.i

\* the result is the first follower of the list for which wanted holds, and
\* None exactly when there is none
FirstOf(wanted(_)) ==
    LET hits == {i \in 1..Len(service.followers) : wanted(service.followers[i])} IN
    IF hits = {} THEN service.result = None
    ELSE \E i \in hits :
            /\ \A j \in hits : i <= j
            /\ service.result = service.followers[i]

\* a follower the claim as stated accepts
WantedAsStated(follower) ==
    /\ MeetsCriteria(follower)
    /\ service.require_mlb => follower.equip_limit_count = 4

\* a follower accepted when the limit break counts only with an equip asked for
WantedWithEquip(follower) ==
    /\ MeetsCriteria(follower)
    /\ (service.require_mlb /\ service.target_equip_id # None) =>
           follower.equip_limit_count = 4

-----------------------------------------------------------------------------
(* The gacha helpers *)

Selected == service.op = "select_gacha_sub"

\* the conditions of a release id, as the API gave them, are met by the quests
ReleaseMet(common_release_id) ==
    common_release_id # 0 =>
        \A i \in 1..Len(service.release[common_release_id]) :
            LET cond == service.release[common_release_id][i]
                cleared == \E q \in 1..Len(service.user_quest) :
                              /\ service.user_quest[q].quest_id = cond.condId
                              /\ service.user_quest[q].clear_num > 0
            IN  /\ cond.condType = "questClear" => cleared
                /\ cond.condType = "questNotClear" => ~cleared

\* the subs open at the time of the call whose release conditions are met
Eligible ==
    { i \in 1..Len(service.gacha_subs) :
        /\ service.gacha_subs[i].openedAt < service.time
        /\ service.time < service.gacha_subs[i].closedAt
        /\ ReleaseMet(service.gacha_subs[i].commonReleaseId) }

\* C21: select_gacha_sub returns, among the subs with openedAt < current_time
\* < closedAt, the one with the highest priority whose release conditions,
\* identified by the sub's common release id, are met by the user's quests,
\* the earliest in input order among equal priorities; None if and only if no
\* active sub meets its release conditions.
Claim_C21 ==
    Selected =>
        IF Eligible = {} THEN service.result = None
        ELSE \E i \in Eligible :
                /\ \A j \in Eligible :
                      \/ service.gacha_subs[j].priority < service.gacha_subs[i].priority
                      \/ /\ service.gacha_subs[j].priority = service.gacha_subs[i].priority
                         /\ i <= j
                /\ service.result = service.gacha_subs[i]

-----------------------------------------------------------------------------
(* The shop *)

Bought == service.op = "buy_blue_apple"

\* the AP the player has: one point comes back every 300 seconds
ActNow ==
    service.act_max
        - (IF service.delay <= 0 THEN 0 ELSE (service.delay + 299) \div 300)

\* C22: buy_blue_apple returns a PurchaseResult if and only if a
\* /shop/purchase request was attempted, and returns None whenever its
\* conditions are not met (fewer than one sapling, or current AP below 40), in
\* which case no request is sent.
Claim_C22 ==
    Bought =>
        /\ service.result.returned = "PurchaseResult" <=> service.requests > 0
        /\ (service.blue_apple_sapling < 1 \/ ActNow < 40) =>
               /\ service.result.returned = "None"
               /\ service.requests = 0

-----------------------------------------------------------------------------
(* The free draw *)

DrawChecked == service.op = "is_free_fp_draw_available"

\* what Python returns as the midnight that follows a draw
GoldenMidnights ==
    { <<1699973999, 1699974000>>, <<1699974000, 1700060400>>, <<-32401, -32400>>,
      <<-1, 54000>>, <<1709218799, 1709218800>>, <<951750000, 951836400>>,
      <<1704034799, 1704034800>>, <<2147300000, 2147353200>> }

\* C23: is_free_fp_draw_available(t) is true if and only if the current
\* timestamp is at or after the first JST midnight strictly after t, that is
\* now >= (floor((t + 32400) / 86400) + 1) * 86400 - 32400; a draw made
\* exactly at a JST midnight becomes available again only 24 hours later.
Thm_C23 ==
    DrawChecked =>
        /\ service.result
               <=> service.now >= ((service.t + 32400) \div 86400 + 1) * 86400 - 32400
        /\ \A golden \in GoldenMidnights :
               service.t = golden[1] => (service.result <=> service.now >= golden[2])
        /\ (service.t + 32400) % 86400 = 0 =>
               (service.result <=> service.now >= service.t + 86400)

\* a draw exactly at a JST midnight, asked about one second before the next
Wit_C23 ==
    /\ DrawChecked
    /\ service.t = 1699974000
    /\ service.now = service.t + 86399
    /\ ~service.result

-----------------------------------------------------------------------------
(* The fetches *)

Fetched == service.op = "fetch"

\* the GET succeeds: the server answers 200 within the retries
GetSucceeds == service.attempts <= service.retries /\ service.status = 200

\* C24: fetch_gacha_data and fetch_gacha_sub_data return the parsed JSON list
\* whenever the HTTP GET succeeds, and fail only with a requests exception; a
\* call with default arguments reaches the HTTP GET.
Claim_C24 ==
    Fetched =>
        /\ GetSucceeds => service.ok
        /\ ~service.ok => service.error \in {"requests.ConnectionError", "requests.HTTPError"}
        /\ (service.retries = 3 /\ service.timeout = 30) => service.reached

-----------------------------------------------------------------------------
(* The follower list and its cooldown *)

\* the refresh calls that were let through
AcceptedRefresh == {k \in 1..Len(list_calls) : list_calls[k].refresh /\ ~list_calls[k].rejected}

\* the refresh requests sent
RefreshRequests == {k \in 1..Len(list_requests) : list_requests[k].refresh}

\* a refresh call inside the window is refused with the time left, and the
\* first refresh call of a service is let through
RejectionsAsStated ==
    /\ \A k \in 1..Len(list_calls) :
          list_calls[k].rejected =>
              /\ list_calls[k].refresh
              /\ ~list_calls[k].result.success
              /\ 0 < list_calls[k].result.cooldown_remaining
              /\ list_calls[k].result.cooldown_remaining <= 11
              /\ list_calls[k].t_check - list_calls[k].before < 11
    /\ \A k \in 1..Len(list_calls) :
          (list_calls[k].refresh /\ \A h \in 1..(k - 1) : ~list_calls[h].refresh)
              => ~list_calls[k].rejected

\* C25 as stated: under a non-decreasing clock, every two /follower/list
\* requests sent with refresh=1 are at least 11 seconds apart; a refresh call
\* inside the window returns success=False with 0 < cooldown_remaining <= 11,
\* and the first refresh call after construction is never rejected.
Claim_C25 ==
    /\ \A i, j \in RefreshRequests :
          i < j => list_requests[j].at - list_requests[i].at >= 11
    /\ RejectionsAsStated

\* C25, amended: every accepted refresh call reads the clock at least 11
\* seconds after the time the previous accepted refresh call recorded, so the
\* recorded times are at least 11 seconds apart and a request goes out at
\* least 11 seconds after the previous recorded time; the requests themselves
\* may be closer by the time the earlier call took to send its own.  A refresh
\* call inside the window returns success=False with 0 < cooldown_remaining
\* <= 11, and the first refresh call after construction is never rejected.
Thm_C25 ==
    /\ \A i, j \in AcceptedRefresh :
          i < j =>
              /\ list_calls[j].t_check - list_calls[i].after >= 11
              /\ list_calls[j].after - list_calls[i].after >= 11
              /\ list_calls[j].t_send - list_calls[i].after >= 11
    /\ RejectionsAsStated

\* two refresh calls let through, the second exactly when the window ends
Wit_C25 ==
    /\ AcceptedRefresh = {1, 2}
    /\ list_calls[2].t_check - list_calls[1].after = 11
    /\ Len(list_requests) = 2

\* C26: when get_follower_list(refresh=True) is called from several threads,
\* in every interleaving at most one refresh request is sent within any
\* 11-second window: the check and the update of _last_refresh_time behave
\* atomically.
Claim_C26 ==
    \A i, j \in RefreshRequests :
        (i # j /\ list_requests[i].by # list_requests[j].by) =>
            \/ list_requests[j].at - list_requests[i].at >= 11
            \/ list_requests[i].at - list_requests[j].at >= 11

\* C27: a call rejected by the cooldown sends no request and leaves
\* _last_refresh_time unchanged; a call with refresh=False is never rejected,
\* and neither changes _last_refresh_time nor starts a cooldown; only an
\* accepted refresh call changes _last_refresh_time, before its request is
\* sent, so a refresh whose request fails still starts the cooldown.
Thm_C27 ==
    /\ Len(list_calls) > 0 => last_refresh_time = list_calls[Len(list_calls)].after
    /\ Len(list_requests) = Cardinality({k \in 1..Len(list_calls) : ~list_calls[k].rejected})
    /\ \A k \in 1..Len(list_calls) :
          LET call == list_calls[k] IN
          /\ k > 1 => call.before = list_calls[k - 1].after
          /\ call.rejected => (call.requests = 0 /\ call.after = call.before)
          /\ ~call.refresh =>
                /\ ~call.rejected
                /\ call.requests = 1
                /\ call.after = call.before
                /\ call.result.cooldown_remaining = 0
          /\ call.after # call.before => (call.refresh /\ ~call.rejected)
          /\ (call.refresh /\ ~call.rejected) =>
                /\ call.after = call.t_set
                /\ call.t_check <= call.t_set
                /\ call.t_set <= call.t_send
                /\ call.requests = 1
          /\ (k > 1 /\ call.refresh /\ call.t_check - list_calls[k - 1].after < 11) =>
                call.rejected

\* a refresh whose request failed, then a refresh ten seconds later that the
\* cooldown rejects
Wit_C27 ==
    /\ Len(list_calls) = 2
    /\ list_calls[1].refresh /\ ~list_calls[1].rejected /\ list_calls[1].answer = "fails"
    /\ ~list_calls[1].result.success
    /\ list_calls[2].refresh /\ list_calls[2].rejected
    /\ list_calls[2].t_check - list_calls[1].t_send = 10
    /\ last_refresh_time = list_calls[1].t_set
    /\ Len(list_requests) = 1

-----------------------------------------------------------------------------
(* battle_result and what it is given *)

\* C28: battle_result never raises: for every setup result (zero servants,
\* zero enemy waves and a failed setup included) and every server outcome it
\* returns a BattleResultResponse; whenever building the payload fails it
\* returns success=False with an error message and sends no /battle/result
\* request; and it leaves the setup_result it was given unchanged.
Thm_C28 ==
    battle.called =>
        /\ ~battle.raised
        /\ ~battle.built =>
              /\ ~battle.success
              /\ battle.error_message # ""
              /\ ~battle.request_sent
        /\ ~battle.success => battle.error_message # ""
        /\ battle.request_sent => battle.built
        /\ setup_result = battle_setup(setup_response)

\* a deck without servants against one wave: no card to choose from
Wit_C28 ==
    /\ battle.called
    /\ ~battle.built
    /\ setup_result.success
    /\ setup_result.my_deck_svt_count = 0
    /\ setup_result.enemy_deck_pages = 1
    /\ ~battle.request_sent

-----------------------------------------------------------------------------
(* Specifications *)

\* get_auth_code applied to every bounded dict
AuthInit == AuthStart /\ ClientStart /\ BattleIdle /\ CodecIdle /\ ServiceIdle /\ FollowerIdle

AuthNext ==
    \/ AuthCall /\ UNCHANGED <<clientVars, battleVars, codecVars, serviceVars, followerVars>>
    \/ AuthCallAgain /\ UNCHANGED <<clientVars, battleVars, codecVars, serviceVars, followerVars>>
    \/ AuthCallReordered /\ UNCHANGED <<clientVars, battleVars, codecVars, serviceVars, followerVars>>
    \/ AuthCallNullSwapped /\ UNCHANGED <<clientVars, battleVars, codecVars, serviceVars, followerVars>>

SpecAuth == AuthInit /\ [][AuthNext]_vars

\* one client, its calls in any order
ClientInit == AuthIdle /\ ClientStart /\ BattleIdle /\ CodecIdle /\ ServiceIdle /\ FollowerIdle

ClientNext ==
    \/ PostCallerDict /\ UNCHANGED <<authVars, battleVars, codecVars, serviceVars, followerVars>>
    \/ PostEnvelope /\ UNCHANGED <<authVars, battleVars, codecVars, serviceVars, followerVars>>
    \/ LoginCall /\ UNCHANGED <<authVars, battleVars, codecVars, serviceVars, followerVars>>
    \/ FormCall /\ UNCHANGED <<authVars, battleVars, codecVars, serviceVars, followerVars>>
    \/ BasicCall /\ UNCHANGED <<authVars, battleVars, codecVars, serviceVars, followerVars>>

SpecClient == ClientInit /\ [][ClientNext]_vars

\* one battle_setup, then one battle_result on what it returned
BattleInit == AuthIdle /\ ClientStart /\ BattleStart /\ CodecIdle /\ ServiceIdle /\ FollowerIdle

BattleNext ==
    \/ BattleSetup /\ UNCHANGED <<authVars, clientVars, codecVars, serviceVars, followerVars>>
    \/ BattleResultCustom /\ UNCHANGED <<authVars, clientVars, codecVars, serviceVars, followerVars>>
    \/ BattleResultRandom /\ UNCHANGED <<authVars, clientVars, codecVars, serviceVars, followerVars>>
    \/ BattleResultRaises /\ UNCHANGED <<authVars, clientVars, codecVars, serviceVars, followerVars>>

SpecBattle == BattleInit /\ [][BattleNext]_vars

\* one codec call on every explored input
CodecInit == AuthIdle /\ ClientStart /\ BattleIdle /\ CodecStart /\ ServiceIdle /\ FollowerIdle

CodecNext ==
    \/ SealThenUnseal /\ UNCHANGED <<authVars, clientVars, battleVars, serviceVars, followerVars>>
    \/ Unseal /\ UNCHANGED <<authVars, clientVars, battleVars, serviceVars, followerVars>>
    \/ AssetBundle /\ UNCHANGED <<authVars, clientVars, battleVars, serviceVars, followerVars>>
    \/ StatusCall /\ UNCHANGED <<authVars, clientVars, battleVars, serviceVars, followerVars>>

SpecCodec == CodecInit /\ [][CodecNext]_vars

\* get_login_data and create_form_data called from the threads, interleaved
ThreadsInit == AuthIdle /\ ClientStart /\ BattleIdle /\ CodecIdle /\ ServiceIdle /\ FollowerIdle

ThreadsNext == ThreadStep /\ UNCHANGED <<authVars, battleVars, codecVars, serviceVars, followerVars>>

SpecThreads == ThreadsInit /\ [][ThreadsNext]_vars

\* one service call on every explored input
ServicesInit == AuthIdle /\ ClientStart /\ BattleIdle /\ CodecIdle /\ ServiceStart /\ FollowerIdle

ServicesNext ==
    \/ RecoverAp /\ UNCHANGED <<authVars, clientVars, battleVars, codecVars, followerVars>>
    \/ FindTargetFollower /\ UNCHANGED <<authVars, clientVars, battleVars, codecVars, followerVars>>
    \/ SelectGachaSub /\ UNCHANGED <<authVars, clientVars, battleVars, codecVars, followerVars>>
    \/ BuyBlueApple /\ UNCHANGED <<authVars, clientVars, battleVars, codecVars, followerVars>>
    \/ FreeDrawAvailable /\ UNCHANGED <<authVars, clientVars, battleVars, codecVars, followerVars>>
    \/ FetchGachaData /\ UNCHANGED <<authVars, clientVars, battleVars, codecVars, followerVars>>

SpecServices == ServicesInit /\ [][ServicesNext]_vars

\* one FollowerService, its calls one after another
FollowerInit == AuthIdle /\ ClientStart /\ BattleIdle /\ CodecIdle /\ ServiceIdle /\ FollowerStart

FollowerNext ==
    GetFollowerList /\ UNCHANGED <<authVars, clientVars, battleVars, codecVars, serviceVars>>

SpecFollower == FollowerInit /\ [][FollowerNext]_vars

\* one FollowerService, a refresh call from each thread
FollowerThreadsNext ==
    \/ Tick /\ UNCHANGED <<authVars, clientVars, battleVars, codecVars, serviceVars>>
    \/ \E i \in Threads :
          \/ ListCheck(i) /\ UNCHANGED <<authVars, clientVars, battleVars, codecVars, serviceVars>>
          \/ ListRecord(i) /\ UNCHANGED <<authVars, clientVars, battleVars, codecVars, serviceVars>>
          \/ ListPost(i) /\ UNCHANGED <<authVars, clientVars, battleVars, codecVars, serviceVars>>

SpecFollowerThreads == FollowerInit /\ [][FollowerThreadsNext]_vars

Init == ClientInit
Next == ClientNext
Spec == Init /\ [][Next]_vars

====
